---- MODULE Spec2Model ----
(***************************************************************************)
(* Model of the HIP-820 authentication helpers and of the authenticate /   *)
(* safe_request flow of the discovery scripts                              *)
(* (MarketMakerWorkerService.Tests/discovery).                             *)
(*                                                                         *)
(* Bytes are integers 0..255, byte strings are sequences of bytes, text is *)
(* a sequence of Unicode code points.  Python positions are 0-based: the   *)
(* byte data[pos] of the code is data[pos + 1] here.                       *)
(*                                                                         *)
(* TLC integers are 32-bit signed, so the varint inputs range over         *)
(* -2^31+1 .. 2^31-1; five-byte encodings start at 2^28.                   *)
(***************************************************************************)
EXTENDS Integers, Sequences, FiniteSets, TLC

VARIABLES
    \* encode_varint / decode_varint
    value, encoded, decoded, verr, vpc,
    \* build_hip820
    message, msg_bytes, wrapped, hpc,
    \* build_signature_map and its decoding
    pub_key, signature, key_type, builder, sig_map, outer, inner, spc,
    \* authenticate / safe_request (order_lifecycle_3.py)
    private_key_hex, apc, attempt, body, log, challenge_res, verify_res,
    signed_over, token, raised_at,
    \* credential construction (new_auth.py), two runs
    cred_key, cred_type, canonical_message, runs,
    \* settle_positions (scripts/settle_all_positions.py)
    positions, settle_pc, settle_request, settle_result,
    \* http_request (market_orders.py)
    http_method, http_endpoint, http_pc, network_calls, http_result,
    http_raised, http_status,
    \* submit_multiple_orders (market_orders.py)
    balance_base, order_index, submit_pc, submit_log, submit_outcomes,
    submitted_orders,
    \* main (order_lifecycle.py)
    lc_pc, lc_log,
    \* scripts/ex_deposit.py run as a script
    dep_pc, dep_log,
    \* safe_request (order_lifecycle_3.py)
    sr_method, sr_pc, sr_attempt, sr_log, sr_result,
    \* main (order_lifecycle_3.py)
    l3_pc, l3_attempt, l3_kwargs, l3_log, l3_results, l3_token, l3_order_id,
    l3_clock, l3_uuid, l3_exit,
    \* the helpers of a script and those of new_auth.py on one input
    dup_script, dup_fn, dup_none, dup_value, dup_a, dup_b, dup_pc,
    dup_script_out, dup_ref_out

varintVars == <<value, encoded, decoded, verr, vpc>>
hipVars == <<message, msg_bytes, wrapped, hpc>>
sigVars == <<pub_key, signature, key_type, builder, sig_map, outer, inner,
             spc>>
authVars == <<private_key_hex, apc, attempt, body, log, challenge_res,
              verify_res, signed_over, token, raised_at>>
credVars == <<cred_key, cred_type, canonical_message, runs>>
settleVars == <<positions, settle_pc, settle_request, settle_result>>
httpVars == <<http_method, http_endpoint, http_pc, network_calls,
              http_result, http_raised, http_status>>
submitVars == <<balance_base, order_index, submit_pc, submit_log,
                submit_outcomes, submitted_orders>>
lcVars == <<lc_pc, lc_log>>
depVars == <<dep_pc, dep_log>>
srVars == <<sr_method, sr_pc, sr_attempt, sr_log, sr_result>>
l3Vars == <<l3_pc, l3_attempt, l3_kwargs, l3_log, l3_results, l3_token,
            l3_order_id, l3_clock, l3_uuid, l3_exit>>
dupVars == <<dup_script, dup_fn, dup_none, dup_value, dup_a, dup_b, dup_pc,
             dup_script_out, dup_ref_out>>
vars == <<varintVars, hipVars, sigVars, authVars, credVars, settleVars,
          httpVars, submitVars, lcVars, depVars, srVars, l3Vars, dupVars>>

\* what the actions of one group leave unchanged
notVarintVars == <<hipVars, sigVars, authVars, credVars, settleVars,
                   httpVars, submitVars, lcVars, depVars, srVars, l3Vars,
                   dupVars>>
notHipVars == <<varintVars, sigVars, authVars, credVars, settleVars,
                httpVars, submitVars, lcVars, depVars, srVars, l3Vars,
                dupVars>>
notSigVars == <<varintVars, hipVars, authVars, credVars, settleVars,
                httpVars, submitVars, lcVars, depVars, srVars, l3Vars,
                dupVars>>
notAuthVars == <<varintVars, hipVars, sigVars, credVars, settleVars,
                 httpVars, submitVars, lcVars, depVars, srVars, l3Vars,
                 dupVars>>
notCredVars == <<varintVars, hipVars, sigVars, authVars, settleVars,
                 httpVars, submitVars, lcVars, depVars, srVars, l3Vars,
                 dupVars>>
notSettleVars == <<varintVars, hipVars, sigVars, authVars, credVars,
                   httpVars, submitVars, lcVars, depVars, srVars, l3Vars,
                   dupVars>>
notHttpVars == <<varintVars, hipVars, sigVars, authVars, credVars,
                 settleVars, submitVars, lcVars, depVars, srVars, l3Vars,
                 dupVars>>
notSubmitVars == <<varintVars, hipVars, sigVars, authVars, credVars,
                   settleVars, httpVars, lcVars, depVars, srVars, l3Vars,
                   dupVars>>
notLcVars == <<varintVars, hipVars, sigVars, authVars, credVars, settleVars,
               httpVars, submitVars, depVars, srVars, l3Vars, dupVars>>
notDepVars == <<varintVars, hipVars, sigVars, authVars, credVars,
                settleVars, httpVars, submitVars, lcVars, srVars, l3Vars,
                dupVars>>
notSrVars == <<varintVars, hipVars, sigVars, authVars, credVars, settleVars,
               httpVars, submitVars, lcVars, depVars, l3Vars, dupVars>>
notL3Vars == <<varintVars, hipVars, sigVars, authVars, credVars, settleVars,
               httpVars, submitVars, lcVars, depVars, srVars, dupVars>>
notDupVars == <<varintVars, hipVars, sigVars, authVars, credVars,
                settleVars, httpVars, submitVars, lcVars, depVars, srVars,
                l3Vars>>

(***************************************************************************)
(* Bounds of the enumerated inputs.                                        *)
(***************************************************************************)
MaxDense == 300       \* encode_varint is tried on every value 0..MaxDense
MaxNeg == 3           \* and on every value -MaxNeg..-1
MaxUnitLen == 2       \* a message is a unit of at most MaxUnitLen characters
MaxReps == 30         \* repeated at most MaxReps times
MaxSmallLen == 2      \* keys and signatures of every length 0..MaxSmallLen
MaxText == 2          \* challenge messages of at most MaxText characters
MaxPositions == 3     \* positions in the account view
MaxQty == 2           \* largest quantity of a position
MaxCalls == 3         \* network calls one http_request is followed for
MaxBalance == 3       \* balances of 19, 38, ... base units

(***************************************************************************)
(* Program constants                                                       *)
(***************************************************************************)
MAX_RETRIES == 3
RETRY_DELAY == 2

(***************************************************************************)
(* Arithmetic helpers: Python's int operators on the operands the code     *)
(* gives them.                                                             *)
(***************************************************************************)
RECURSIVE Pow2(_)
Pow2(n) == IF n = 0 THEN 1 ELSE 2 * Pow2(n - 1)

\* a | b for non-negative a, b
RECURSIVE BitOr(_, _)
BitOr(a, b) ==
    IF a = 0 THEN b
    ELSE IF b = 0 THEN a
    ELSE (IF a % 2 = 1 \/ b % 2 = 1 THEN 1 ELSE 0) + 2 * BitOr(a \div 2, b \div 2)

\* a & b for non-negative b (a may be negative: two's complement, as in Python)
RECURSIVE BitAnd(_, _)
BitAnd(a, b) ==
    IF b = 0 THEN 0
    ELSE (IF a % 2 = 1 /\ b % 2 = 1 THEN 1 ELSE 0) + 2 * BitAnd(a \div 2, b \div 2)

\* a >> n (arithmetic shift: floor division)
ShiftRight(a, n) == a \div Pow2(n)

\* a << n
ShiftLeft(a, n) == a * Pow2(n)

(***************************************************************************)
(* encode_varint(value)                                                    *)
(***************************************************************************)
\* the loop of encode_varint with an off-by-one loop test (value >= 0x7f)
RECURSIVE encode_varint_ge(_)
encode_varint_ge(v) ==
    IF v >= 127
    THEN <<BitOr(BitAnd(v, 127), 128)>> \o encode_varint_ge(ShiftRight(v, 7))
    ELSE <<BitAnd(v, 127)>>

RECURSIVE encode_varint_loop(_, _)
encode_varint_loop(v, result) ==
    IF v > 127
    THEN encode_varint_loop(ShiftRight(v, 7),
                            Append(result, BitOr(BitAnd(v, 127), 128)))
    ELSE Append(result, BitAnd(v, 127))

encode_varint(v) == encode_varint_loop(v, <<>>)

(***************************************************************************)
(* decode_varint(data, pos): returns <<value, pos>>                        *)
(***************************************************************************)
RECURSIVE decode_varint_loop(_, _, _, _)
decode_varint_loop(data, pos, val, shift) ==
    IF pos < Len(data)
    THEN LET byte == data[pos + 1]
             val2 == BitOr(val, ShiftLeft(BitAnd(byte, 127), shift))
         IN  IF BitAnd(byte, 128) = 0
             THEN <<val2, pos + 1>>
             ELSE decode_varint_loop(data, pos + 1, val2, shift + 7)
    ELSE <<val, pos>>

\* decode_varint that stops at the first byte whatever its continuation bit
decode_varint_one(data, pos) ==
    IF pos < Len(data) THEN <<BitAnd(data[pos + 1], 127), pos + 1>> ELSE <<0, pos>>

decode_varint(data, pos) == decode_varint_loop(data, pos, 0, 0)

(***************************************************************************)
(* Varint exercise: encode_varint on an input, decode_varint on the result *)
(***************************************************************************)
VarintBoundaries ==
    {16383, 16384, 2097151, 2097152, 268435455, 268435456, 2147483647,
     -127, -128, -129, -2147483647}

VarintInputs == ((0 - MaxNeg) .. MaxDense) \cup VarintBoundaries

VarintIdle ==
    /\ value = 0
    /\ encoded = <<>>
    /\ decoded = <<>>
    /\ verr = "none"
    /\ vpc = "idle"

VarintInit ==
    /\ value \in VarintInputs
    /\ encoded = <<>>
    /\ decoded = <<>>
    /\ verr = "none"
    /\ vpc = "input"

\* encoded = encode_varint(value): the function has no raise statement and
\* every operator it applies is defined on every int, so no exception leaves it
EncodeVarint ==
    /\ vpc = "input"
    /\ encoded' = encode_varint(value)
    /\ verr' = "none"
    /\ vpc' = "encoded"
    /\ UNCHANGED <<value, decoded>>
    /\ UNCHANGED notVarintVars

\* decoded = decode_varint(encoded, 0)
DecodeVarint ==
    /\ vpc = "encoded"
    /\ decoded' = decode_varint(encoded, 0)
    /\ vpc' = "decoded"
    /\ UNCHANGED <<value, encoded, verr>>
    /\ UNCHANGED notVarintVars

VarintNext == EncodeVarint \/ DecodeVarint

(***************************************************************************)
(* Text and byte helpers                                                   *)
(***************************************************************************)
\* str.encode('utf-8') of one code point
Utf8Char(cp) ==
    IF cp < 128 THEN <<cp>>
    ELSE IF cp < 2048 THEN <<192 + (cp \div 64), 128 + (cp % 64)>>
    ELSE IF cp < 65536
         THEN <<224 + (cp \div 4096), 128 + ((cp \div 64) % 64), 128 + (cp % 64)>>
    ELSE <<240 + (cp \div 262144), 128 + ((cp \div 4096) % 64),
           128 + ((cp \div 64) % 64), 128 + (cp % 64)>>

\* message.encode('utf-8')
RECURSIVE Utf8Encode(_)
Utf8Encode(text) ==
    IF text = <<>> THEN <<>>
    ELSE Utf8Char(Head(text)) \o Utf8Encode(Tail(text))

\* str(n).encode('ascii') for n >= 0: the decimal digits as ASCII bytes
RECURSIVE StrAscii(_)
StrAscii(n) ==
    IF n < 10 THEN <<48 + n>>
    ELSE Append(StrAscii(n \div 10), 48 + (n % 10))

(***************************************************************************)
(* build_hip820(canonical_message_bytes)                                   *)
(***************************************************************************)
\* b'\x19Hedera Signed Message:\n'
Hip820Prefix ==
    <<25, 72, 101, 100, 101, 114, 97, 32, 83, 105, 103, 110, 101, 100, 32,
      77, 101, 115, 115, 97, 103, 101, 58, 10>>

\* build_hip820 counting a terminating NUL into the length
build_hip820_nul(canonical_message_bytes) ==
    Hip820Prefix \o StrAscii(Len(canonical_message_bytes) + 1) \o <<10>>
        \o canonical_message_bytes

\* build_hip820 without the newline that ends the length
build_hip820_nonl(canonical_message_bytes) ==
    Hip820Prefix \o StrAscii(Len(canonical_message_bytes))
        \o canonical_message_bytes

build_hip820(canonical_message_bytes) ==
    LET prefix == Hip820Prefix
        length_str == StrAscii(Len(canonical_message_bytes))
        newline == <<10>>
    IN  prefix \o length_str \o newline \o canonical_message_bytes

(***************************************************************************)
(* HIP-820 exercise: a text message is encoded and wrapped                 *)
(***************************************************************************)
\* 'A', e-acute, the euro sign, an emoji: 1, 2, 3 and 4 bytes in UTF-8
CodePoints == {65, 233, 8364, 128512}

RECURSIVE Repeat(_, _)
Repeat(unit, n) == IF n = 0 THEN <<>> ELSE unit \o Repeat(unit, n - 1)

Units == UNION {[1..n -> CodePoints] : n \in 0..MaxUnitLen}

Messages == {Repeat(unit, n) : unit \in Units, n \in 0..MaxReps}

HipIdle ==
    /\ message = <<>>
    /\ msg_bytes = <<>>
    /\ wrapped = <<>>
    /\ hpc = "idle"

HipInit ==
    /\ message \in Messages
    /\ msg_bytes = <<>>
    /\ wrapped = <<>>
    /\ hpc = "input"

\* message.encode('utf-8')
EncodeMessage ==
    /\ hpc = "input"
    /\ msg_bytes' = Utf8Encode(message)
    /\ hpc' = "bytes"
    /\ UNCHANGED <<message, wrapped>>
    /\ UNCHANGED notHipVars

\* hip820_bytes = build_hip820(...)
BuildHip820 ==
    /\ hpc = "bytes"
    /\ wrapped' = build_hip820(msg_bytes)
    /\ hpc' = "wrapped"
    /\ UNCHANGED <<message, msg_bytes>>
    /\ UNCHANGED notHipVars

HipNext == EncodeMessage \/ BuildHip820

(***************************************************************************)
(* build_signature_map(pub_key, signature)                                 *)
(***************************************************************************)
\* build_signature_map with the two sub-fields in the wrong order
build_signature_map_swapped(pk, sg) ==
    LET sig_pair == (<<26>> \o encode_varint(Len(sg)) \o sg)
                    \o (<<10>> \o encode_varint(Len(pk)) \o pk)
    IN  <<10>> \o encode_varint(Len(sig_pair)) \o sig_pair

\* build_signature_map returning the signature pair without the outer field
build_signature_map_nowrap(pk, sg) ==
    (<<10>> \o encode_varint(Len(pk)) \o pk)
        \o (<<26>> \o encode_varint(Len(sg)) \o sg)

build_signature_map(pk, sg) ==
    LET sig_pair1 == <<10>> \o encode_varint(Len(pk)) \o pk
        sig_pair == sig_pair1 \o (<<26>> \o encode_varint(Len(sg)) \o sg)
    IN  <<10>> \o encode_varint(Len(sig_pair)) \o sig_pair

(***************************************************************************)
(* build_signature_map_protobuf(public_key_bytes, signature_bytes,         *)
(*                              key_type)                                  *)
(***************************************************************************)
\* build_signature_map_protobuf testing for the ECDSA key type instead
build_signature_map_protobuf_inv(public_key_bytes, signature_bytes, kt) ==
    LET tag == IF kt = "ecdsa_secp256k1" THEN <<50>> ELSE <<26>>
        sig_pair == <<10>> \o encode_varint(Len(public_key_bytes))
                    \o public_key_bytes \o tag
                    \o encode_varint(Len(signature_bytes)) \o signature_bytes
    IN  <<10>> \o encode_varint(Len(sig_pair)) \o sig_pair

build_signature_map_protobuf(public_key_bytes, signature_bytes, kt) ==
    LET sp0 == <<>>
        sp1 == sp0 \o <<10>>
        sp2 == sp1 \o encode_varint(Len(public_key_bytes))
        sp3 == sp2 \o public_key_bytes
        sp4 == IF kt = "ed25519" THEN sp3 \o <<26>> ELSE sp3 \o <<50>>
        sp5 == sp4 \o encode_varint(Len(signature_bytes))
        sig_pair == sp5 \o signature_bytes
        sm0 == <<10>>
        sm1 == sm0 \o encode_varint(Len(sig_pair))
    IN  sm1 \o sig_pair

(***************************************************************************)
(* The field loop of sign_with_hedera_sdk: walks a protobuf buffer and     *)
(* reads every length-delimited field.  Returns the fields read, in order, *)
(* and the final position.                                                 *)
(***************************************************************************)
\* returned_bytes[a:b]
Slice(data, a, b) ==
    LET hi == IF b < Len(data) THEN b ELSE Len(data)
    IN  IF a >= hi THEN <<>> ELSE SubSeq(data, a + 1, hi)

RECURSIVE parse_fields_loop(_, _, _)
parse_fields_loop(returned_bytes, pos, fields) ==
    IF pos < Len(returned_bytes)
    THEN LET field_header == returned_bytes[pos + 1]
             pos1 == pos + 1
             field_number == ShiftRight(field_header, 3)
             wire_type == BitAnd(field_header, 7)
         IN  IF wire_type = 2
             THEN LET lp == decode_varint(returned_bytes, pos1)
                      length == lp[1]
                      pos2 == lp[2]
                      data == Slice(returned_bytes, pos2, pos2 + length)
                  IN  parse_fields_loop(returned_bytes, pos2 + length,
                          Append(fields, [field_number |-> field_number,
                                          data |-> data]))
             ELSE parse_fields_loop(returned_bytes, pos1, fields)
    ELSE [fields |-> fields, pos |-> pos]

parse_fields(returned_bytes) == parse_fields_loop(returned_bytes, 0, <<>>)

\* body_bytes: the data of the last field numbered 1; found is FALSE when
\* body_bytes is still None after the loop
RECURSIVE body_bytes_of(_)
body_bytes_of(fields) ==
    IF fields = <<>> THEN [found |-> FALSE, data |-> <<>>]
    ELSE LET last == fields[Len(fields)]
         IN  IF last.field_number = 1 THEN [found |-> TRUE, data |-> last.data]
             ELSE body_bytes_of(SubSeq(fields, 1, Len(fields) - 1))

(***************************************************************************)
(* Signature-map exercise: build the map of a key and a signature with one *)
(* of the two builders, then decode the outer field and the inner pair.    *)
(***************************************************************************)
\* 32: raw Ed25519 public key, 33: compressed secp256k1 key, 64: Ed25519
\* signature, 127..129: where a length varint grows to two bytes
KeyLens == (0..MaxSmallLen) \cup {32, 33, 64, 127, 128, 129}

\* contents: the tag bytes themselves, a byte with the high bit set, a ramp
FillBytes == {10, 26, 255}

ByteStrings ==
    {[i \in 1..n |-> f] : n \in KeyLens, f \in FillBytes}
        \cup {[i \in 1..n |-> (7 * i) % 256] : n \in KeyLens}

\* the two documented key types and a misspelt one
KeyTypes == {"ed25519", "ecdsa_secp256k1", "ED25519"}

NoParse == [fields |-> <<>>, pos |-> 0]

SigIdle ==
    /\ pub_key = <<>>
    /\ signature = <<>>
    /\ key_type = "ed25519"
    /\ builder = "none"
    /\ sig_map = <<>>
    /\ outer = NoParse
    /\ inner = NoParse
    /\ spc = "idle"

SigInit ==
    /\ pub_key \in ByteStrings
    /\ signature \in ByteStrings
    /\ key_type \in KeyTypes
    /\ builder = "none"
    /\ sig_map = <<>>
    /\ outer = NoParse
    /\ inner = NoParse
    /\ spc = "input"

\* signature_map = build_signature_map(public_key_bytes, signature)
BuildSignatureMap ==
    /\ spc = "input"
    /\ sig_map' = build_signature_map(pub_key, signature)
    /\ builder' = "build_signature_map"
    /\ spc' = "built"
    /\ UNCHANGED <<pub_key, signature, key_type, outer, inner>>
    /\ UNCHANGED notSigVars

\* signature_map = build_signature_map_protobuf(public_key_bytes, signature, KEY_TYPE)
BuildSignatureMapProtobuf ==
    /\ spc = "input"
    /\ sig_map' = build_signature_map_protobuf(pub_key, signature, key_type)
    /\ builder' = "build_signature_map_protobuf"
    /\ spc' = "built"
    /\ UNCHANGED <<pub_key, signature, key_type, outer, inner>>
    /\ UNCHANGED notSigVars

\* the field loop on the whole buffer
DecodeOuter ==
    /\ spc = "built"
    /\ outer' = parse_fields(sig_map)
    /\ spc' = "outer"
    /\ UNCHANGED <<pub_key, signature, key_type, builder, sig_map, inner>>
    /\ UNCHANGED notSigVars

\* the field loop on the signature pair found in field 1
DecodeInner ==
    /\ spc = "outer"
    /\ body_bytes_of(outer.fields).found
    /\ inner' = parse_fields(body_bytes_of(outer.fields).data)
    /\ spc' = "decoded"
    /\ UNCHANGED <<pub_key, signature, key_type, builder, sig_map, outer>>
    /\ UNCHANGED notSigVars

SigNext ==
    \/ BuildSignatureMap
    \/ BuildSignatureMapProtobuf
    \/ DecodeOuter
    \/ DecodeInner

(***************************************************************************)
(* base64.b64encode(data).decode('utf-8'): the standard alphabet, padded   *)
(***************************************************************************)
B64Char(i) ==
    IF i < 26 THEN 65 + i
    ELSE IF i < 52 THEN 97 + (i - 26)
    ELSE IF i < 62 THEN 48 + (i - 52)
    ELSE IF i = 62 THEN 43 ELSE 47

RECURSIVE b64encode(_)
b64encode(data) ==
    IF Len(data) = 0 THEN <<>>
    ELSE IF Len(data) = 1
    THEN <<B64Char(data[1] \div 4), B64Char((data[1] % 4) * 16), 61, 61>>
    ELSE IF Len(data) = 2
    THEN <<B64Char(data[1] \div 4),
           B64Char((data[1] % 4) * 16 + (data[2] \div 16)),
           B64Char((data[2] % 16) * 4), 61>>
    ELSE <<B64Char(data[1] \div 4),
           B64Char((data[1] % 4) * 16 + (data[2] \div 16)),
           B64Char((data[2] % 16) * 4 + (data[3] \div 64)),
           B64Char(data[3] % 64)>>
         \o b64encode(SubSeq(data, 4, Len(data)))

(***************************************************************************)
(* The Ed25519 primitive of the cryptography package, as far as the code   *)
(* relies on it: a private key is a 32-byte seed, the raw public key is 32 *)
(* bytes determined by the seed, a signature is 64 bytes determined by the *)
(* seed and by every byte of the message.                                  *)
(***************************************************************************)
KeySeeds ==
    [keyA |-> [i \in 1..32 |-> (3 * i) % 256],
     keyB |-> [i \in 1..32 |-> (5 * i + 1) % 256]]

\* private_key_hex values: two well-formed keys and one that does not load
PrivateKeyHexes == {"keyA", "keyB", "malformed"}

\* a key loader that accepts any bytes
load_der_private_key_lenient(hex) ==
    [raised |-> FALSE, seed |-> [i \in 1..32 |-> 0]]

\* serialization.load_der_private_key(bytes.fromhex(private_key_hex), ...)
load_der_private_key(hex) ==
    IF hex \in DOMAIN KeySeeds
    THEN [raised |-> FALSE, seed |-> KeySeeds[hex]]
    ELSE [raised |-> TRUE, seed |-> <<>>]

\* private_key.public_key().public_bytes(Raw, Raw)
public_bytes(seed) == [i \in 1..32 |-> (7 * seed[i] + 13) % 256]

RECURSIVE WeightedSum(_, _)
WeightedSum(msg, k) ==
    IF k = 0 THEN 0 ELSE (WeightedSum(msg, k - 1) + k * msg[k]) % 65521

\* private_key.sign(message)
sign(seed, msg) ==
    LET h == WeightedSum(msg, Len(msg)) + Len(msg)
    IN  [i \in 1..64 |-> (seed[((i - 1) % 32) + 1] + i * h + (h \div 256)) % 256]

(***************************************************************************)
(* JSON values of the responses.  t is "absent" (dict.get gives None),     *)
(* "str" or "num" (a non-zero number); s is the text of a string.          *)
(***************************************************************************)
Absent == [t |-> "absent", s |-> <<>>]
Str(x) == [t |-> "str", s |-> x]
Num == [t |-> "num", s |-> <<>>]

\* Python truthiness: not None, not "", not 0
Truthy(j) == j.t = "num" \/ (j.t = "str" /\ j.s # <<>>)

Texts == UNION {[1..n -> {65, 233, 8364}] : n \in 1..MaxText}

\* "c1", "c2" as texts
ChallengeIds == {<<99, 49>>, <<99, 50>>}

\* "jwtA"
Tokens == {<<106, 119, 116, 65>>}

NoneResponse ==
    [none |-> TRUE, status |-> 0, json |-> "invalid",
     challenge_id |-> Absent, message |-> Absent, access_token |-> Absent]

Statuses == {200, 401, 500}

Response(st, js, cid, msg, tok) ==
    [none |-> FALSE, status |-> st, json |-> js,
     challenge_id |-> cid, message |-> msg, access_token |-> tok]

\* what the server may answer to the challenge request
ChallengeResponses ==
    {Response(st, js, Absent, Absent, Absent) :
        st \in Statuses, js \in {"invalid", "array"}}
    \cup
    {Response(st, "object", cid, msg, Absent) :
        st \in Statuses,
        cid \in {Absent, Str(<<>>)} \cup {Str(c) : c \in ChallengeIds},
        msg \in {Absent, Str(<<>>), Num} \cup {Str(x) : x \in Texts}}

\* what the server may answer to the verify request
VerifyResponses ==
    {Response(st, js, Absent, Absent, Absent) :
        st \in Statuses, js \in {"invalid", "array"}}
    \cup
    {Response(st, "object", Absent, Absent, tok) :
        st \in Statuses,
        tok \in {Absent, Str(<<>>), Num} \cup {Str(x) : x \in Tokens}}

\* the exceptions safe_request catches
RequestExceptions == {"Timeout", "ConnectionError", "RequestException", "Exception"}

(***************************************************************************)
(* Request bodies and the log of what the run did on the network           *)
(***************************************************************************)
NoBody ==
    [challenge_id |-> Absent, message_signed_plain_text |-> Absent,
     signature_map_base64 |-> <<>>, sig_type |-> "-"]

\* the body of the challenge request carries nothing of interest here
ChallengeBody == [NoBody EXCEPT !.sig_type = "message"]

\* requests.post(url, **kwargs)
RequestEvent(endpoint, b) ==
    [ev |-> "request", endpoint |-> endpoint, body |-> b, seconds |-> 0]

\* time.sleep(RETRY_DELAY)
SleepEvent ==
    [ev |-> "sleep", endpoint |-> "-", body |-> NoBody, seconds |-> RETRY_DELAY]

IsVerifyRequest(e) == e.ev = "request" /\ e.endpoint = "verify"
IsChallengeRequest(e) == e.ev = "request" /\ e.endpoint = "challenge"

(***************************************************************************)
(* authenticate(account_id, private_key_hex), order_lifecycle_3.py         *)
(***************************************************************************)
\* the checks between the challenge call and the signing, without the
\* status test
challenge_usable_any_status(res) ==
    /\ ~res.none
    /\ res.json = "object"
    /\ Truthy(res.challenge_id)
    /\ Truthy(res.message)

\* challenge_res is not None, has status 200, is a JSON object and carries a
\* truthy challenge_id and message
challenge_usable(res) ==
    /\ ~res.none
    /\ res.status = 200
    /\ res.json = "object"
    /\ Truthy(res.challenge_id)
    /\ Truthy(res.message)

\* the bytes handed to private_key.sign
signing_input_unwrapped(msg) == Utf8Encode(msg.s)

signing_input(msg) == build_hip820(Utf8Encode(msg.s))

verify_body(seed, challenge_id, msg) ==
    [challenge_id |-> challenge_id,
     message_signed_plain_text |-> msg,
     signature_map_base64 |->
        b64encode(build_signature_map(public_bytes(seed),
                                      sign(seed, signing_input(msg)))),
     sig_type |-> "ed25519"]

NoResult == [t |-> "pending", s |-> <<>>]
ResultNone == [t |-> "None", s |-> <<>>]
ResultToken(x) == [t |-> "token", s |-> x]

AuthIdle ==
    /\ private_key_hex = "keyA"
    /\ apc = "idle"
    /\ attempt = 0
    /\ body = NoBody
    /\ log = <<>>
    /\ challenge_res = NoneResponse
    /\ verify_res = NoneResponse
    /\ signed_over = <<>>
    /\ token = NoResult
    /\ raised_at = "none"

AuthInit ==
    /\ private_key_hex \in PrivateKeyHexes
    /\ apc = "start"
    /\ attempt = 0
    /\ body = NoBody
    /\ log = <<>>
    /\ challenge_res = NoneResponse
    /\ verify_res = NoneResponse
    /\ signed_over = <<>>
    /\ token = NoResult
    /\ raised_at = "none"

\* lines 484-512: the imports and the key loading; an exception of either
\* is caught at the end of authenticate, which returns None
AuthLoadKey ==
    /\ apc = "start"
    /\ \E import_ok \in BOOLEAN :
        IF import_ok /\ ~load_der_private_key(private_key_hex).raised
        THEN /\ apc' = "challenge"
             /\ body' = ChallengeBody
             /\ attempt' = 0
             /\ token' = token
             /\ raised_at' = "none"
        ELSE /\ apc' = "done"
             /\ token' = ResultNone
             /\ raised_at' = IF import_ok THEN "load_der_private_key" ELSE "import"
             /\ UNCHANGED <<body, attempt>>
    /\ UNCHANGED <<private_key_hex, log, challenge_res, verify_res, signed_over>>
    /\ UNCHANGED notAuthVars

\* safe_request, one pass of its loop: requests.post is called with the
\* same url and kwargs; a response is returned whatever its status
SafeRequestResponse ==
    /\ apc \in {"challenge", "verify"}
    /\ attempt < MAX_RETRIES
    /\ log' = Append(log, RequestEvent(apc, body))
    /\ \/ /\ apc = "challenge"
          /\ challenge_res' \in ChallengeResponses
          /\ apc' = "challenge_returned"
          /\ UNCHANGED verify_res
       \/ /\ apc = "verify"
          /\ verify_res' \in VerifyResponses
          /\ apc' = "verify_returned"
          /\ UNCHANGED challenge_res
    /\ UNCHANGED <<private_key_hex, attempt, body, signed_over, token, raised_at>>
    /\ UNCHANGED notAuthVars

\* safe_request, one pass of its loop: requests.post raises; sleep and go
\* round again, or, on the last attempt, leave the loop and return None
SafeRequestException ==
    /\ apc \in {"challenge", "verify"}
    /\ attempt < MAX_RETRIES
    /\ \E exc \in RequestExceptions :
        IF attempt < MAX_RETRIES - 1
        THEN /\ log' = log \o <<RequestEvent(apc, body), SleepEvent>>
             /\ attempt' = attempt + 1
             /\ UNCHANGED <<apc, challenge_res, verify_res>>
        ELSE /\ log' = Append(log, RequestEvent(apc, body))
             /\ attempt' = attempt + 1
             /\ IF apc = "challenge"
                THEN /\ challenge_res' = NoneResponse
                     /\ apc' = "challenge_returned"
                     /\ UNCHANGED verify_res
                ELSE /\ verify_res' = NoneResponse
                     /\ apc' = "verify_returned"
                     /\ UNCHANGED challenge_res
    /\ UNCHANGED <<private_key_hex, body, signed_over, token, raised_at>>
    /\ UNCHANGED notAuthVars

\* lines 514-561: the checks on the challenge response, the signing and the
\* verify body.  message.encode fails on a message that is not a string and
\* private_key.sign may fail: both are caught and authenticate returns None
AuthOnChallenge ==
    /\ apc = "challenge_returned"
    /\ IF challenge_usable(challenge_res) /\ challenge_res.message.t = "str"
       THEN LET seed == load_der_private_key(private_key_hex).seed
            IN  \E sign_ok \in BOOLEAN :
                   /\ signed_over' = signing_input(challenge_res.message)
                   /\ IF sign_ok
                      THEN /\ body' = verify_body(seed, challenge_res.challenge_id,
                                                  challenge_res.message)
                           /\ apc' = "verify"
                           /\ attempt' = 0
                           /\ token' = token
                           /\ raised_at' = "none"
                      ELSE /\ apc' = "done"
                           /\ token' = ResultNone
                           /\ raised_at' = "private_key.sign"
                           /\ UNCHANGED <<body, attempt>>
       ELSE /\ apc' = "done"
            /\ token' = ResultNone
            /\ raised_at' =
                  IF challenge_res.none \/ challenge_res.status # 200
                     \/ challenge_res.json = "invalid"
                  THEN "none"
                  ELSE IF challenge_res.json = "array" THEN "challenge_data.get"
                  ELSE IF challenge_usable(challenge_res) THEN "message.encode"
                  ELSE "none"
            /\ UNCHANGED <<body, attempt, signed_over>>
    /\ UNCHANGED <<private_key_hex, log, challenge_res, verify_res>>
    /\ UNCHANGED notAuthVars

\* lines 566-599: the checks on the verify response; slicing a token that
\* is not a string raises, which is caught and gives None
AuthOnVerify ==
    /\ apc = "verify_returned"
    /\ IF /\ ~verify_res.none
          /\ verify_res.status = 200
          /\ verify_res.json = "object"
          /\ Truthy(verify_res.access_token)
          /\ verify_res.access_token.t = "str"
       THEN /\ token' = ResultToken(verify_res.access_token.s)
            /\ raised_at' = "none"
       ELSE /\ token' = ResultNone
            /\ raised_at' =
                  IF (verify_res.none \/ verify_res.status # 200 \/
                      verify_res.json = "invalid")
                  THEN "none"
                  ELSE IF verify_res.json = "array" THEN "verify_data.get"
                  ELSE IF Truthy(verify_res.access_token) THEN "token_slice"
                  ELSE "none"
    /\ apc' = "done"
    /\ UNCHANGED <<private_key_hex, attempt, body, log,
                   challenge_res, verify_res, signed_over>>
    /\ UNCHANGED notAuthVars

Next ==
    \/ AuthLoadKey
    \/ SafeRequestResponse
    \/ SafeRequestException
    \/ AuthOnChallenge
    \/ AuthOnVerify

(***************************************************************************)
(* Credential construction of new_auth.py authenticate (steps 2 to 4),     *)
(* run twice on the same key and canonical message.  The two runs differ   *)
(* in what the server sent besides the message (the challenge id) and in   *)
(* the nonce the ECDSA signer draws.                                       *)
(***************************************************************************)
Runs == {1, 2}

\* the per-signature random k of ecdsa.SigningKey.sign
Nonces == {1, 2}

\* get_public_key_bytes(private_key, key_type)
get_public_key_bytes(seed, kt) ==
    IF kt = "ed25519"
    THEN public_bytes(seed)
    ELSE <<2 + (seed[1] % 2)>> \o public_bytes(seed)

\* a signer whose Ed25519 signatures depend on the nonce as well
sign_message_nonce(seed, msg, kt, k) ==
    [i \in 1..64 |-> (sign(seed, msg)[i] + k * i) % 256]

\* sign_message(private_key, message, key_type); k is the nonce drawn by
\* the ECDSA signer
sign_message(seed, msg, kt, k) ==
    IF kt = "ed25519"
    THEN sign(seed, msg)
    ELSE [i \in 1..64 |-> (sign(seed, msg)[i] + k * i) % 256]

CredStart(cid) ==
    [pc |-> "challenge", challenge_id |-> cid, hip820_bytes |-> <<>>,
     signature |-> <<>>, signature_map |-> <<>>,
     signature_map_base64 |-> <<>>]

CredIdle ==
    /\ cred_key = "keyA"
    /\ cred_type = "ed25519"
    /\ canonical_message = <<>>
    /\ runs = [r \in Runs |-> CredStart(<<>>)]

CredInit ==
    /\ cred_key \in DOMAIN KeySeeds
    /\ cred_type \in {"ed25519", "ecdsa_secp256k1"}
    /\ canonical_message \in Texts
    /\ \E c1, c2 \in ChallengeIds : runs = <<CredStart(c1), CredStart(c2)>>

\* step 2: hip820_bytes = build_hip820(canonical_message.encode('utf-8'))
CredWrap ==
    \E r \in Runs :
        /\ runs[r].pc = "challenge"
        /\ runs' = [runs EXCEPT ![r].pc = "wrapped",
                        ![r].hip820_bytes =
                            build_hip820(Utf8Encode(canonical_message))]
        /\ UNCHANGED <<cred_key, cred_type, canonical_message>>
        /\ UNCHANGED notCredVars

\* step 3: signature = sign_message(private_key, hip820_bytes, KEY_TYPE)
CredSign ==
    \E r \in Runs, k \in Nonces :
        /\ runs[r].pc = "wrapped"
        /\ runs' = [runs EXCEPT ![r].pc = "signed",
                        ![r].signature =
                            sign_message(KeySeeds[cred_key],
                                         runs[r].hip820_bytes, cred_type, k)]
        /\ UNCHANGED <<cred_key, cred_type, canonical_message>>
        /\ UNCHANGED notCredVars

\* step 4: signature_map = build_signature_map_protobuf(...)
CredBuildMap ==
    \E r \in Runs :
        /\ runs[r].pc = "signed"
        /\ runs' = [runs EXCEPT ![r].pc = "mapped",
                        ![r].signature_map =
                            build_signature_map_protobuf(
                                get_public_key_bytes(KeySeeds[cred_key],
                                                     cred_type),
                                runs[r].signature, cred_type)]
        /\ UNCHANGED <<cred_key, cred_type, canonical_message>>
        /\ UNCHANGED notCredVars

\* signature_map_base64 = base64.b64encode(signature_map).decode('utf-8')
CredBase64 ==
    \E r \in Runs :
        /\ runs[r].pc = "mapped"
        /\ runs' = [runs EXCEPT ![r].pc = "encoded",
                        ![r].signature_map_base64 =
                            b64encode(runs[r].signature_map)]
        /\ UNCHANGED <<cred_key, cred_type, canonical_message>>
        /\ UNCHANGED notCredVars

CredNext ==
    \/ CredWrap
    \/ CredSign
    \/ CredBuildMap
    \/ CredBase64

(***************************************************************************)
(* settle_positions of scripts/settle_all_positions.py.  A position is a   *)
(* record of the account view; its postion_id is its place in the list.    *)
(* Quantities are integers.                                                *)
(***************************************************************************)
PositionSides == {"long", "short", "Long", ""}
PositionQuantities == -1..MaxQty

PositionLists ==
    UNION {[1..n -> [contract_side : PositionSides,
                     quantity : PositionQuantities]] : n \in 0..MaxPositions}

\* str.lower() on the sides of PositionSides
Lower(side) == IF side = "Long" THEN "long" ELSE side

Min(a, b) == IF a <= b THEN a ELSE b

\* the classification loop with quantity >= 0 in place of quantity > 0
RECURSIVE side_positions_nonneg(_, _)
side_positions_nonneg(ps, side) ==
    IF ps = <<>> THEN <<>>
    ELSE IF Head(ps).quantity >= 0 /\ Lower(Head(ps).contract_side) = side
         THEN <<Head(ps)>> \o side_positions_nonneg(Tail(ps), side)
         ELSE side_positions_nonneg(Tail(ps), side)

\* long_positions / short_positions: the loop over positions
RECURSIVE side_positions(_, _)
side_positions(ps, side) ==
    IF ps = <<>> THEN <<>>
    ELSE IF Head(ps).quantity > 0 /\ Lower(Head(ps).contract_side) = side
         THEN <<Head(ps)>> \o side_positions(Tail(ps), side)
         ELSE side_positions(Tail(ps), side)

\* sum(p.get('quantity', 0) for p in ps)
RECURSIVE total_qty(_)
total_qty(ps) ==
    IF ps = <<>> THEN 0 ELSE Head(ps).quantity + total_qty(Tail(ps))

\* one of the two loops that fill settlement_quantities
RECURSIVE settle_side(_, _)
settle_side(ps, remaining_to_settle) ==
    IF ps = <<>> \/ remaining_to_settle = 0 THEN <<>>
    ELSE LET quantity == Min(Head(ps).quantity, remaining_to_settle)
         IN  <<[position_id |-> Head(ps).postion_id, quantity |-> quantity]>>
             \o settle_side(Tail(ps), remaining_to_settle - quantity)

\* the "Verify balance" sums: entries whose id is the id of a position of
\* side_list whose contract_side is spelt exactly side
RECURSIVE total_settled(_, _, _)
total_settled(entries, side_list, side) ==
    IF entries = <<>> THEN 0
    ELSE (IF \E i \in 1..Len(side_list) :
                /\ side_list[i].postion_id = Head(entries).position_id
                /\ side_list[i].contract_side = side
          THEN Head(entries).quantity ELSE 0)
         + total_settled(Tail(entries), side_list, side)

NoRequest == <<[position_id |-> 0, quantity |-> 0]>>

\* what settle_positions does before any request: its early result, or
\* the settlement_quantities it posts
settle_plan(ps) ==
    LET long_positions == side_positions(ps, "long")
        short_positions == side_positions(ps, "short")
        total_long_qty == total_qty(long_positions)
        total_short_qty == total_qty(short_positions)
        max_settleable == Min(total_long_qty, total_short_qty)
        settlement_quantities ==
            settle_side(short_positions, max_settleable)
                \o settle_side(long_positions, max_settleable)
    IN  IF ps = <<>> THEN [returned |-> "True", request |-> NoRequest]
        ELSE IF total_long_qty = 0 \/ total_short_qty = 0
             THEN [returned |-> "True", request |-> NoRequest]
        ELSE IF max_settleable = 0
             THEN [returned |-> "True", request |-> NoRequest]
        ELSE IF settlement_quantities = <<>>
             THEN [returned |-> "True", request |-> NoRequest]
        ELSE IF total_settled(settlement_quantities, long_positions, "long")
                   # total_settled(settlement_quantities, short_positions,
                                   "short")
             THEN [returned |-> "False", request |-> NoRequest]
        ELSE [returned |-> "none", request |-> settlement_quantities]

SettleStatuses == {200, 400, 500}

SettleIdle ==
    /\ positions = <<>>
    /\ settle_pc = "idle"
    /\ settle_request = NoRequest
    /\ settle_result = "none"

SettleInit ==
    /\ \E raw \in PositionLists :
          positions = [i \in DOMAIN raw |->
                          [postion_id |-> i,
                           contract_side |-> raw[i].contract_side,
                           quantity |-> raw[i].quantity]]
    /\ settle_pc = "start"
    /\ settle_request = NoRequest
    /\ settle_result = "none"

\* settle_positions up to requests.post
SettlePositions ==
    /\ settle_pc = "start"
    /\ LET plan == settle_plan(positions)
       IN  /\ settle_request' = plan.request
           /\ settle_result' = plan.returned
           /\ settle_pc' = IF plan.returned = "none" THEN "sent" ELSE "done"
    /\ UNCHANGED positions
    /\ UNCHANGED notSettleVars

\* the response of POST /api/v1/position/settle
SettleResponse ==
    /\ settle_pc = "sent"
    /\ \E status_code \in SettleStatuses :
          settle_result' = IF status_code = 200 THEN "True" ELSE "False"
    /\ settle_pc' = "done"
    /\ UNCHANGED <<positions, settle_request>>
    /\ UNCHANGED notSettleVars

\* requests.post raises; nothing in the script catches it
SettleRequestException ==
    /\ settle_pc = "sent"
    /\ settle_result' = "raised"
    /\ settle_pc' = "done"
    /\ UNCHANGED <<positions, settle_request>>
    /\ UNCHANGED notSettleVars

SettleNext ==
    \/ SettlePositions
    \/ SettleResponse
    \/ SettleRequestException

(***************************************************************************)
(* http_request of market_orders.py: one invocation with any method on any *)
(* endpoint of the script.                                                 *)
(***************************************************************************)
HttpMethods == {"GET", "get", "POST", "Post", "DELETE", "delete", "PUT",
                "PATCH", "HEAD", ""}

HttpEndpoints == {"market_info", "challenge", "verify", "balance",
                  "order_submit", "account", "order_cancel"}

HttpStatuses == {200, 201, 400, 401, 500}

\* the exceptions the three except clauses tell apart
HttpExceptions == {"Timeout", "ConnectionError", "Exception"}

\* method.upper()
Upper(m) ==
    CASE m \in {"GET", "get"} -> "GET"
      [] m \in {"POST", "Post"} -> "POST"
      [] m \in {"DELETE", "delete"} -> "DELETE"
      [] OTHER -> m

\* the branch of the if / elif chain that makes a call
requests_call(m) ==
    CASE Upper(m) = "GET" -> "requests.get"
      [] Upper(m) = "POST" -> "requests.post"
      [] Upper(m) = "DELETE" -> "requests.delete"
      [] OTHER -> "none"

\* an except clause that tries the request again
on_exception_retry(e) == [pc |-> "start", result |-> "none"]

\* the except clauses: print and return None
on_exception(e) == [pc |-> "returned", result |-> "None"]

HttpIdle ==
    /\ http_method = ""
    /\ http_endpoint = "market_info"
    /\ http_pc = "idle"
    /\ network_calls = <<>>
    /\ http_result = "none"
    /\ http_raised = "none"
    /\ http_status = 0

HttpInit ==
    /\ http_method \in HttpMethods
    /\ http_endpoint \in HttpEndpoints
    /\ http_pc = "start"
    /\ network_calls = <<>>
    /\ http_result = "none"
    /\ http_raised = "none"
    /\ http_status = 0

\* the else branch: unsupported method, return None
HttpUnsupported ==
    /\ http_pc = "start"
    /\ requests_call(http_method) = "none"
    /\ http_pc' = "returned"
    /\ http_result' = "None"
    /\ UNCHANGED <<http_method, http_endpoint, network_calls, http_raised,
                   http_status>>
    /\ UNCHANGED notHttpVars

\* requests.get / requests.post / requests.delete is called
HttpSend ==
    /\ http_pc = "start"
    /\ requests_call(http_method) # "none"
    /\ Len(network_calls) < MaxCalls
    /\ network_calls' = Append(network_calls, requests_call(http_method))
    /\ http_pc' = "calling"
    /\ UNCHANGED <<http_method, http_endpoint, http_result, http_raised,
                   http_status>>
    /\ UNCHANGED notHttpVars

\* the call returns a response, which is printed and returned
HttpResponse ==
    /\ http_pc = "calling"
    /\ \E status_code \in HttpStatuses : http_status' = status_code
    /\ http_result' = "response"
    /\ http_pc' = "returned"
    /\ UNCHANGED <<http_method, http_endpoint, network_calls, http_raised>>
    /\ UNCHANGED notHttpVars

\* the call raises, or print_raw_response does after it returned
HttpException ==
    /\ http_pc = "calling"
    /\ \E e \in HttpExceptions :
          /\ http_raised' = e
          /\ http_pc' = on_exception(e).pc
          /\ http_result' = on_exception(e).result
    /\ UNCHANGED <<http_method, http_endpoint, network_calls, http_status>>
    /\ UNCHANGED notHttpVars

HttpNext ==
    \/ HttpUnsupported
    \/ HttpSend
    \/ HttpResponse
    \/ HttpException

(***************************************************************************)
(* submit_multiple_orders / submit_market_order of market_orders.py.       *)
(***************************************************************************)
ORDER_KIND == "market"
ORDERS_PER_SIDE == 2

\* balances in steps of 19 base units: quantities 0, 1, 2, ...
Balances == {19 * b : b \in 1..MaxBalance}

\* int(balance_base * TOTAL_ORDER_SIZE_FACTOR / 4 / 2), for a balance >= 0
quantity_per_order_base(balance) == (balance * 40) \div (100 * 4 * 2)

\* the side and the order_num of the k-th call of submit_market_order
SubmitSide(k) == IF k <= ORDERS_PER_SIDE THEN "long" ELSE "short"
SubmitOrderNum(k) == ((k - 1) % ORDERS_PER_SIDE) + 1

\* the body submit_market_order posts
SubmitBody(side, quantity_base, order_num) ==
    [kind |-> ORDER_KIND, price |-> 0, quantity |-> quantity_base,
     side |-> side, order_num |-> order_num]

\* statuses of submit_market_order's "response.status_code in [200, 201]"
AcceptedStatuses == {200, 201}
RejectedStatuses == {400, 500}

\* bodies of an accepted response: an order object, an empty object, and
\* a body that response.json() cannot parse
AcceptedBodies == {"order", "empty_object", "unparsable"}

SubmitIdle ==
    /\ balance_base = 0
    /\ order_index = 0
    /\ submit_pc = "idle"
    /\ submit_log = <<>>
    /\ submit_outcomes = <<>>
    /\ submitted_orders = <<>>

SubmitInit ==
    /\ balance_base \in Balances
    /\ order_index = 1
    /\ submit_pc = "loop"
    /\ submit_log = <<>>
    /\ submit_outcomes = <<>>
    /\ submitted_orders = <<>>

\* the end of one pass of a for loop, and the return after the last
SubmitAdvance ==
    /\ order_index' = order_index + 1
    /\ submit_pc' = IF order_index = 2 * ORDERS_PER_SIDE
                    THEN "returned" ELSE "loop"

\* submit_market_order up to http_request('POST', url, headers, body)
SubmitSend ==
    /\ submit_pc = "loop"
    /\ submit_log' = Append(submit_log,
                            SubmitBody(SubmitSide(order_index),
                                       quantity_per_order_base(balance_base),
                                       SubmitOrderNum(order_index)))
    /\ submit_pc' = "waiting"
    /\ UNCHANGED <<balance_base, order_index, submit_outcomes,
                   submitted_orders>>
    /\ UNCHANGED notSubmitVars

\* 200 or 201 with a JSON object: data is returned and, if it is not
\* empty, appended with its side
SubmitAccepted ==
    /\ submit_pc = "waiting"
    /\ \E status_code \in AcceptedStatuses,
          data \in AcceptedBodies \ {"unparsable"} :
          /\ submit_outcomes' = Append(submit_outcomes,
                                       [status_code |-> status_code,
                                        data |-> data])
          /\ submitted_orders' =
                IF data = "order"
                THEN Append(submitted_orders,
                            [order_id |-> order_index,
                             side |-> SubmitSide(order_index)])
                ELSE submitted_orders
    /\ SubmitAdvance
    /\ UNCHANGED <<balance_base, submit_log>>
    /\ UNCHANGED notSubmitVars

\* 200 or 201 whose body response.json() cannot parse: the exception
\* leaves submit_market_order and submit_multiple_orders
SubmitUnparsable ==
    /\ submit_pc = "waiting"
    /\ \E status_code \in AcceptedStatuses :
          submit_outcomes' = Append(submit_outcomes,
                                    [status_code |-> status_code,
                                     data |-> "unparsable"])
    /\ submit_pc' = "raised"
    /\ UNCHANGED <<balance_base, order_index, submit_log, submitted_orders>>
    /\ UNCHANGED notSubmitVars

\* another status: submit_market_order returns None
SubmitRejected ==
    /\ submit_pc = "waiting"
    /\ \E status_code \in RejectedStatuses :
          submit_outcomes' = Append(submit_outcomes,
                                    [status_code |-> status_code,
                                     data |-> "none"])
    /\ SubmitAdvance
    /\ UNCHANGED <<balance_base, submit_log, submitted_orders>>
    /\ UNCHANGED notSubmitVars

\* http_request returned None (timeout, connection error, ...)
SubmitFailed ==
    /\ submit_pc = "waiting"
    /\ submit_outcomes' = Append(submit_outcomes,
                                 [status_code |-> 0, data |-> "none"])
    /\ SubmitAdvance
    /\ UNCHANGED <<balance_base, submit_log, submitted_orders>>
    /\ UNCHANGED notSubmitVars

SubmitNext ==
    \/ SubmitSend
    \/ SubmitAccepted
    \/ SubmitUnparsable
    \/ SubmitRejected
    \/ SubmitFailed

(***************************************************************************)
(* main of order_lifecycle.py: the HTTP requests it issues and its calls   *)
(* of wait_for_rate_limit, in order.  A step is named after the function   *)
(* or the line that is about to run.                                       *)
(***************************************************************************)
RATE_LIMIT_DELAY == 10

\* status codes of a response; 0 stands for an exception raised by the
\* requests call or while the response is handled
LcOutcomes == {0, 200, 201, 404, 500}

LcRequestEvent(endpoint, outcome) ==
    [ev |-> "request", endpoint |-> endpoint, outcome |-> outcome,
     seconds |-> 0]

LcWaitEvent ==
    [ev |-> "wait_for_rate_limit", endpoint |-> "", outcome |-> 0,
     seconds |-> RATE_LIMIT_DELAY]

LcIsRequest(e) == e.ev = "request"

\* whether the function that issued the request returns a truthy result
request_ok(endpoint, outcome) ==
    CASE endpoint \in {"challenge", "verify"} -> outcome = 200
      [] endpoint = "balance" -> outcome \in {200, 404}
      [] endpoint = "order_submit" -> outcome \in {200, 201}
      [] OTHER -> TRUE

AuthenticateSteps == {"load_key", "challenge", "wait_239", "sign", "verify"}

\* authenticate without the wait between challenge and verify
authenticate_next_nowait(pc, ok) ==
    CASE pc = "load_key" -> IF ok THEN "challenge" ELSE "return None"
      [] pc = "challenge" -> IF ok THEN "sign" ELSE "return None"
      [] pc = "wait_239" -> "sign"
      [] pc = "sign" -> IF ok THEN "verify" ELSE "return None"
      [] pc = "verify" -> IF ok THEN "return token" ELSE "return None"

\* the order of the steps of authenticate
authenticate_next(pc, ok) ==
    CASE pc = "load_key" -> IF ok THEN "challenge" ELSE "return None"
      [] pc = "challenge" -> IF ok THEN "wait_239" ELSE "return None"
      [] pc = "wait_239" -> "sign"
      [] pc = "sign" -> IF ok THEN "verify" ELSE "return None"
      [] pc = "verify" -> IF ok THEN "return token" ELSE "return None"

\* the order of the steps of main
main_next(pc, ok) ==
    CASE pc = "get_market_config" -> "wait_605"
      [] pc = "wait_605" -> "load_key"
      [] pc = "return token" -> "wait_613"
      [] pc = "return None" -> "EXIT_FAILURE"
      [] pc = "wait_613" -> "get_portfolio_balance"
      [] pc = "get_portfolio_balance" ->
            IF ok THEN "calculate_order_parameters" ELSE "EXIT_FAILURE"
      [] pc = "calculate_order_parameters" ->
            IF ok THEN "wait_632" ELSE "EXIT_FAILURE"
      [] pc = "wait_632" -> "submit_limit_order"
      [] pc = "submit_limit_order" ->
            IF ok THEN "wait_640" ELSE "EXIT_FAILURE"
      [] pc = "wait_640" -> "get_portfolio"
      [] pc = "get_portfolio" -> "wait_647"
      [] pc = "wait_647" -> "cancel_order"
      [] pc = "cancel_order" -> "EXIT_SUCCESS"

lifecycle_next(pc, ok) ==
    IF pc \in AuthenticateSteps
    THEN LET n == authenticate_next(pc, ok)
         IN  IF n \in {"return token", "return None"}
             THEN main_next(n, TRUE) ELSE n
    ELSE main_next(pc, ok)

LcWaitSteps == {"wait_605", "wait_239", "wait_613", "wait_632", "wait_640",
                "wait_647"}

LcIdle ==
    /\ lc_pc = "idle"
    /\ lc_log = <<>>

LcInit ==
    /\ lc_pc = "get_market_config"
    /\ lc_log = <<>>

\* a function that issues one request and returns
LcRequestStep(pc, endpoint) ==
    /\ lc_pc = pc
    /\ \E outcome \in LcOutcomes :
          /\ lc_log' = Append(lc_log, LcRequestEvent(endpoint, outcome))
          /\ lc_pc' = lifecycle_next(pc, request_ok(endpoint, outcome))
    /\ UNCHANGED notLcVars

\* a step without a request, which succeeds or fails
LcLocalStep(pc) ==
    /\ lc_pc = pc
    /\ \E ok \in BOOLEAN : lc_pc' = lifecycle_next(pc, ok)
    /\ UNCHANGED lc_log
    /\ UNCHANGED notLcVars

LcGetMarketConfig == LcRequestStep("get_market_config", "market_info")

LcWaitForRateLimit ==
    /\ lc_pc \in LcWaitSteps
    /\ lc_log' = Append(lc_log, LcWaitEvent)
    /\ lc_pc' = lifecycle_next(lc_pc, TRUE)
    /\ UNCHANGED notLcVars

LcAuthLoadKey == LcLocalStep("load_key")

LcAuthChallenge == LcRequestStep("challenge", "challenge")

LcAuthSign == LcLocalStep("sign")

LcAuthVerify == LcRequestStep("verify", "verify")

LcGetPortfolioBalance == LcRequestStep("get_portfolio_balance", "balance")

LcCalculateOrderParameters == LcLocalStep("calculate_order_parameters")

LcSubmitLimitOrder == LcRequestStep("submit_limit_order", "order_submit")

LcGetPortfolio == LcRequestStep("get_portfolio", "account")

LcCancelOrder == LcRequestStep("cancel_order", "order_cancel")

LcNext ==
    \/ LcGetMarketConfig
    \/ LcWaitForRateLimit
    \/ LcAuthLoadKey
    \/ LcAuthChallenge
    \/ LcAuthSign
    \/ LcAuthVerify
    \/ LcGetPortfolioBalance
    \/ LcCalculateOrderParameters
    \/ LcSubmitLimitOrder
    \/ LcGetPortfolio
    \/ LcCancelOrder

(***************************************************************************)
(* scripts/ex_deposit.py: the module-level call of get_market_config and   *)
(* the __main__ block, as the requests issued and the calls of             *)
(* wait_for_rate_limit, in order.                                          *)
(***************************************************************************)
DepOutcomes == {0, 200, 400, 500}

\* whether the script goes on after the request of a step
deposit_ok(pc, outcome) ==
    CASE pc \in {"get_market_config", "check_balance_initial",
                 "check_balance_final"} -> outcome # 0
      [] OTHER -> outcome = 200

\* the order of the steps; "exit" is any end before the final balance
deposit_next(pc, ok) ==
    CASE pc = "get_market_config" -> IF ok THEN "load_key" ELSE "exit"
      [] pc = "load_key" -> IF ok THEN "challenge" ELSE "exit"
      [] pc = "challenge" -> IF ok THEN "wait_108" ELSE "exit"
      [] pc = "wait_108" -> "sign"
      [] pc = "sign" -> IF ok THEN "verify" ELSE "exit"
      [] pc = "verify" -> IF ok THEN "wait_257" ELSE "exit"
      [] pc = "wait_257" -> "check_balance_initial"
      [] pc = "check_balance_initial" -> IF ok THEN "wait_262" ELSE "exit"
      [] pc = "wait_262" -> "create_deposit_tx"
      [] pc = "create_deposit_tx" ->
            IF ok THEN "sign_with_hedera_sdk" ELSE "exit"
      [] pc = "sign_with_hedera_sdk" -> IF ok THEN "wait_275" ELSE "exit"
      [] pc = "wait_275" -> "submit_deposit"
      [] pc = "submit_deposit" -> IF ok THEN "wait_280" ELSE "exit"
      [] pc = "wait_280" -> "check_balance_final"
      [] pc = "check_balance_final" -> IF ok THEN "done" ELSE "exit"

DepWaitSteps == {"wait_108", "wait_257", "wait_262", "wait_275", "wait_280"}

DepIdle ==
    /\ dep_pc = "idle"
    /\ dep_log = <<>>

DepInit ==
    /\ dep_pc = "get_market_config"
    /\ dep_log = <<>>

DepRequestStep(pc, endpoint) ==
    /\ dep_pc = pc
    /\ \E outcome \in DepOutcomes :
          /\ dep_log' = Append(dep_log, LcRequestEvent(endpoint, outcome))
          /\ dep_pc' = deposit_next(pc, deposit_ok(pc, outcome))
    /\ UNCHANGED notDepVars

DepLocalStep(pc) ==
    /\ dep_pc = pc
    /\ \E ok \in BOOLEAN : dep_pc' = deposit_next(pc, ok)
    /\ UNCHANGED dep_log
    /\ UNCHANGED notDepVars

\* config = get_market_config(), run when the module is loaded
DepGetMarketConfig == DepRequestStep("get_market_config", "market_info")

DepWaitForRateLimit ==
    /\ dep_pc \in DepWaitSteps
    /\ dep_log' = Append(dep_log, LcWaitEvent)
    /\ dep_pc' = deposit_next(dep_pc, TRUE)
    /\ UNCHANGED notDepVars

DepAuthLoadKey == DepLocalStep("load_key")

DepAuthChallenge == DepRequestStep("challenge", "challenge")

DepAuthSign == DepLocalStep("sign")

DepAuthVerify == DepRequestStep("verify", "verify")

DepCheckBalanceInitial == DepRequestStep("check_balance_initial", "balance")

DepCreateDepositTx ==
    DepRequestStep("create_deposit_tx", "deposit_transaction")

DepSignWithHederaSdk == DepLocalStep("sign_with_hedera_sdk")

DepSubmitDeposit == DepRequestStep("submit_deposit", "deposit")

DepCheckBalanceFinal == DepRequestStep("check_balance_final", "balance")

DepNext ==
    \/ DepGetMarketConfig
    \/ DepWaitForRateLimit
    \/ DepAuthLoadKey
    \/ DepAuthChallenge
    \/ DepAuthSign
    \/ DepAuthVerify
    \/ DepCheckBalanceInitial
    \/ DepCreateDepositTx
    \/ DepSignWithHederaSdk
    \/ DepSubmitDeposit
    \/ DepCheckBalanceFinal

(***************************************************************************)
(* safe_request of order_lifecycle_3.py: one invocation with any method.   *)
(* An action is one pass of its for loop.                                  *)
(***************************************************************************)
SrStatuses == {200, 201, 400, 401, 404, 500}

\* one call of requests.get / post / delete: the status of the response,
\* or 0 and the exception raised
SrAttemptEvent(status_code, exc) ==
    [ev |-> "attempt", status_code |-> status_code, exc |-> exc,
     seconds |-> 0]

\* time.sleep(RETRY_DELAY)
SrSleepEvent ==
    [ev |-> "sleep", status_code |-> 0, exc |-> "", seconds |-> RETRY_DELAY]

\* a handler that sleeps after the last attempt as well
sleep_after_always(n) == TRUE

\* "if attempt < MAX_RETRIES - 1" of the except clauses
sleep_after(n) == n < MAX_RETRIES - 1

SrIdle ==
    /\ sr_method = ""
    /\ sr_pc = "idle"
    /\ sr_attempt = 0
    /\ sr_log = <<>>
    /\ sr_result = "none"

SrInit ==
    /\ sr_method \in HttpMethods
    /\ sr_pc = "loop"
    /\ sr_attempt = 0
    /\ sr_log = <<>>
    /\ sr_result = "none"

\* the else branch: unsupported method, return None
SrUnsupported ==
    /\ sr_pc = "loop"
    /\ sr_attempt < MAX_RETRIES
    /\ requests_call(sr_method) = "none"
    /\ sr_pc' = "returned"
    /\ sr_result' = "None"
    /\ UNCHANGED <<sr_method, sr_attempt, sr_log>>
    /\ UNCHANGED notSrVars

\* the call returns a response: it is returned whatever its status
SrResponse ==
    /\ sr_pc = "loop"
    /\ sr_attempt < MAX_RETRIES
    /\ requests_call(sr_method) # "none"
    /\ \E status_code \in SrStatuses :
          sr_log' = Append(sr_log, SrAttemptEvent(status_code, ""))
    /\ sr_pc' = "returned"
    /\ sr_result' = "response"
    /\ UNCHANGED <<sr_method, sr_attempt>>
    /\ UNCHANGED notSrVars

\* the call raises: sleep unless this was the last attempt, then go round
\* again; after the last pass the loop ends and None is returned
SrException ==
    /\ sr_pc = "loop"
    /\ sr_attempt < MAX_RETRIES
    /\ requests_call(sr_method) # "none"
    /\ \E exc \in RequestExceptions :
          sr_log' = sr_log \o <<SrAttemptEvent(0, exc)>>
                      \o (IF sleep_after(sr_attempt)
                          THEN <<SrSleepEvent>> ELSE <<>>)
    /\ sr_attempt' = sr_attempt + 1
    /\ IF sr_attempt + 1 < MAX_RETRIES
       THEN UNCHANGED <<sr_pc, sr_result>>
       ELSE sr_pc' = "returned" /\ sr_result' = "None"
    /\ UNCHANGED sr_method
    /\ UNCHANGED notSrVars

SrNext ==
    \/ SrUnsupported
    \/ SrResponse
    \/ SrException

(***************************************************************************)
(* main of order_lifecycle_3.py: the whole lifecycle. An action is one     *)
(* attempt of the safe_request in progress and, when safe_request returns, *)
(* the code of main and of the functions it calls up to the next call of   *)
(* safe_request or to the return of main.                                  *)
(***************************************************************************)
L3Steps ==
    {"config", "challenge", "verify", "balance", "submit", "portfolio",
     "cancel"}

\* the field a function reads from the JSON body of a response: "" when it
\* is absent, null or empty
L3Values == {"", "v1", "v2"}

\* a response: its status, whether response.json() decodes, and the field
L3Responses ==
    [status_code : {200, 201, 404, 500}, json : BOOLEAN, value : L3Values]

\* safe_request returned None
L3None == [status_code |-> 0, json |-> FALSE, value |-> ""]

\* "if not x" of Python, for None and for the empty string or dict
falsy(x) == x = ""

\* the kwargs of a call of safe_request with its method and url: the
\* Authorization and Idempotency-Key headers, the client_order_id of the
\* body and the orderId of the query string; 0 and "" where there is none
L3Kwargs(method, endpoint, token_, key, client_order_id, order_id) ==
    [method |-> method, endpoint |-> endpoint, token |-> token_,
     idempotency_key |-> key,
     client_order_id |-> client_order_id, order_id |-> order_id]

L3NoRequest == L3Kwargs("", "", "", 0, 0, "")

L3ConfigRequest == L3Kwargs("GET", "market/info", "", 0, 0, "")

L3ChallengeRequest == L3Kwargs("POST", "auth/challenge", "", 0, 0, "")

L3VerifyRequest == L3Kwargs("POST", "auth/verify", "", 0, 0, "")

L3BalanceRequest(token_) ==
    L3Kwargs("GET", "account/balance", token_, 0, 0, "")

\* submit_limit_order: the header and the body are built once, before the
\* call of safe_request
L3SubmitRequest(token_, idempotency_key, client_order_id) ==
    L3Kwargs("POST", "order/submit", token_, idempotency_key,
             client_order_id, "")

L3PortfolioRequest(token_) == L3Kwargs("GET", "account", token_, 0, 0, "")

\* a cancel that names the same order whatever it was given
L3CancelRequestFixed(token_, idempotency_key, order_id) ==
    L3Kwargs("DELETE", "order/cancel", token_, idempotency_key, 0, "v1")

\* cancel_order: url = .../order/cancel?orderId={order_id}
L3CancelRequest(token_, idempotency_key, order_id) ==
    L3Kwargs("DELETE", "order/cancel", token_, idempotency_key, 0, order_id)

\* a loop that builds the key and the client order id again on each pass
attempt_kwargs_rebuilt(kwargs, n) ==
    [kwargs EXCEPT !.idempotency_key = @ + n,
                   !.client_order_id = @ + n * RETRY_DELAY]

\* requests.get / post / delete (url, **kwargs): pass n of the loop sends
\* the kwargs safe_request was called with
attempt_kwargs(kwargs, n) == kwargs

\* a main that gives up when the account view fails
L3PortfolioFatalWhenMissing(portfolio) == falsy(portfolio)

\* step 4 of main: a failed account view is a warning, main goes on
L3PortfolioFatal(portfolio) == FALSE

L3Idle ==
    /\ l3_pc = "idle"
    /\ l3_attempt = 0
    /\ l3_kwargs = L3NoRequest
    /\ l3_log = <<>>
    /\ l3_results = {}
    /\ l3_token = ""
    /\ l3_order_id = ""
    /\ l3_clock = 0
    /\ l3_uuid = 0
    /\ l3_exit = ""

\* main up to the first attempt of the safe_request of get_market_config
L3Init ==
    /\ l3_pc = "config"
    /\ l3_attempt = 0
    /\ l3_kwargs = L3ConfigRequest
    /\ l3_log = <<>>
    /\ l3_results = {}
    /\ l3_token = ""
    /\ l3_order_id = ""
    /\ l3_clock = 1
    /\ l3_uuid = 0
    /\ l3_exit = ""

\* one call of requests.get / post / delete with the kwargs of this pass
L3Send == l3_log' = Append(l3_log, attempt_kwargs(l3_kwargs, l3_attempt))

\* safe_request returns res on this pass: a response of the call, or None
\* when the call of the last pass raised
L3Returns(res) ==
    \/ res \in L3Responses
    \/ res = L3None /\ l3_attempt + 1 = MAX_RETRIES

\* the next function calls safe_request
L3Call(step, kwargs) ==
    /\ l3_pc' = step
    /\ l3_attempt' = 0
    /\ l3_kwargs' = kwargs
    /\ l3_exit' = l3_exit

\* main returns
L3Return(code) ==
    /\ l3_pc' = "returned"
    /\ l3_attempt' = 0
    /\ l3_kwargs' = L3NoRequest
    /\ l3_exit' = code

\* a pass of safe_request whose call raises and that is not the last:
\* sleep RETRY_DELAY and go round again
L3SafeRequestRetry ==
    /\ l3_pc \in L3Steps
    /\ l3_attempt + 1 < MAX_RETRIES
    /\ L3Send
    /\ l3_clock' = IF sleep_after(l3_attempt)
                   THEN l3_clock + RETRY_DELAY ELSE l3_clock
    /\ l3_attempt' = l3_attempt + 1
    /\ UNCHANGED <<l3_pc, l3_kwargs, l3_results, l3_token, l3_order_id,
                   l3_uuid, l3_exit>>
    /\ UNCHANGED notL3Vars

\* get_market_config returns the fetched or the default configuration;
\* authenticate loads the key and requests the challenge
L3OnConfig ==
    /\ l3_pc = "config"
    /\ \E res \in L3Responses \cup {L3None} : L3Returns(res)
    /\ L3Send
    /\ l3_results' = l3_results \cup {"config"}
    /\ \E loaded \in BOOLEAN :
          IF loaded
          THEN L3Call("challenge", L3ChallengeRequest)
          ELSE L3Return("EXIT_FAILURE")
    /\ UNCHANGED <<l3_token, l3_order_id, l3_clock, l3_uuid>>
    /\ UNCHANGED notL3Vars

\* authenticate: the challenge came back; sign it and request the verify
L3OnChallenge ==
    /\ l3_pc = "challenge"
    /\ \E res \in L3Responses \cup {L3None} :
          /\ L3Returns(res)
          /\ IF res # L3None /\ res.status_code = 200 /\ res.json
                /\ ~ falsy(res.value)
             THEN L3Call("verify", L3VerifyRequest)
             ELSE L3Return("EXIT_FAILURE")
    /\ L3Send
    /\ UNCHANGED <<l3_results, l3_token, l3_order_id, l3_clock, l3_uuid>>
    /\ UNCHANGED notL3Vars

\* authenticate returns the access token or None; main stops without a
\* token, else get_portfolio_balance requests the balance
L3OnVerify ==
    /\ l3_pc = "verify"
    /\ \E res \in L3Responses \cup {L3None} :
          /\ L3Returns(res)
          /\ LET token_ ==
                   IF res # L3None /\ res.status_code = 200 /\ res.json
                      /\ ~ falsy(res.value)
                   THEN res.value ELSE ""
             IN  IF falsy(token_)
                 THEN /\ L3Return("EXIT_FAILURE")
                      /\ UNCHANGED <<l3_token, l3_results>>
                 ELSE /\ l3_token' = token_
                      /\ l3_results' = l3_results \cup {"auth"}
                      /\ L3Call("balance", L3BalanceRequest(token_))
    /\ L3Send
    /\ UNCHANGED <<l3_order_id, l3_clock, l3_uuid>>
    /\ UNCHANGED notL3Vars

\* get_portfolio_balance returns the balance (the assumed one on 404) or
\* None; calculate_order_parameters returns the parameters or None, which
\* depends on the balance and the decimals the server sent; main stops on
\* either None, else submit_limit_order builds its request
L3OnBalance ==
    /\ l3_pc = "balance"
    /\ \E res \in L3Responses \cup {L3None}, computed \in BOOLEAN :
          /\ L3Returns(res)
          /\ LET portfolio_info ==
                   IF res # L3None
                      /\ \/ res.status_code = 200 /\ res.json
                         \/ res.status_code = 404
                   THEN "info" ELSE ""
                 order_params == IF computed THEN "params" ELSE ""
             IN  IF falsy(portfolio_info)
                 THEN /\ L3Return("EXIT_FAILURE")
                      /\ UNCHANGED <<l3_results, l3_uuid>>
                 ELSE IF falsy(order_params)
                 THEN /\ L3Return("EXIT_FAILURE")
                      /\ l3_results' = l3_results \cup {"balance"}
                      /\ UNCHANGED l3_uuid
                 ELSE /\ l3_results' =
                            l3_results \cup {"balance", "calculation"}
                      /\ l3_uuid' = l3_uuid + 1
                      /\ L3Call("submit",
                                L3SubmitRequest(l3_token, l3_uuid + 1,
                                                l3_clock))
    /\ L3Send
    /\ UNCHANGED <<l3_token, l3_order_id, l3_clock>>
    /\ UNCHANGED notL3Vars

\* submit_limit_order returns the order id of a 200 or 201 or None; main
\* stops without an order id, else get_portfolio requests the account
L3OnSubmit ==
    /\ l3_pc = "submit"
    /\ \E res \in L3Responses \cup {L3None} :
          /\ L3Returns(res)
          /\ LET order_id ==
                   IF res # L3None /\ res.status_code \in {200, 201}
                      /\ res.json
                   THEN res.value ELSE ""
             IN  /\ l3_order_id' = order_id
                 /\ IF falsy(order_id)
                    THEN /\ L3Return("EXIT_FAILURE")
                         /\ UNCHANGED l3_results
                    ELSE /\ l3_results' = l3_results \cup {"submit"}
                         /\ L3Call("portfolio", L3PortfolioRequest(l3_token))
    /\ L3Send
    /\ UNCHANGED <<l3_token, l3_clock, l3_uuid>>
    /\ UNCHANGED notL3Vars

\* get_portfolio returns the account or None; either way cancel_order
\* builds its request for the order submitted
L3OnPortfolio ==
    /\ l3_pc = "portfolio"
    /\ \E res \in L3Responses \cup {L3None} :
          /\ L3Returns(res)
          /\ LET portfolio ==
                   IF res # L3None /\ res.status_code = 200 /\ res.json
                   THEN res.value ELSE ""
             IN  /\ l3_results' = IF falsy(portfolio) THEN l3_results
                                  ELSE l3_results \cup {"portfolio"}
                 /\ IF L3PortfolioFatal(portfolio)
                    THEN /\ L3Return("EXIT_FAILURE")
                         /\ UNCHANGED l3_uuid
                    ELSE /\ l3_uuid' = l3_uuid + 1
                         /\ L3Call("cancel",
                                   L3CancelRequest(l3_token, l3_uuid + 1,
                                                   l3_order_id))
    /\ L3Send
    /\ UNCHANGED <<l3_token, l3_order_id, l3_clock>>
    /\ UNCHANGED notL3Vars

\* cancel_order returns True on a 200 that decodes; main prints the summary
\* and returns
L3OnCancel ==
    /\ l3_pc = "cancel"
    /\ \E res \in L3Responses \cup {L3None} :
          /\ L3Returns(res)
          /\ l3_results' =
                IF res # L3None /\ res.status_code = 200 /\ res.json
                THEN l3_results \cup {"cancel"} ELSE l3_results
    /\ L3Send
    /\ L3Return("EXIT_SUCCESS")
    /\ UNCHANGED <<l3_token, l3_order_id, l3_clock, l3_uuid>>
    /\ UNCHANGED notL3Vars

\* Ctrl+C while a request is in progress: no "except Exception" catches it,
\* main returns EXIT_INTERRUPTED
L3KeyboardInterrupt ==
    /\ l3_pc \in L3Steps
    /\ L3Return("EXIT_INTERRUPTED")
    /\ UNCHANGED <<l3_log, l3_results, l3_token, l3_order_id, l3_clock,
                   l3_uuid>>
    /\ UNCHANGED notL3Vars

L3Next ==
    \/ L3SafeRequestRetry
    \/ L3OnConfig
    \/ L3OnChallenge
    \/ L3OnVerify
    \/ L3OnBalance
    \/ L3OnSubmit
    \/ L3OnPortfolio
    \/ L3OnCancel
    \/ L3KeyboardInterrupt

(***************************************************************************)
(* The copies of build_hip820, encode_varint and build_signature_map that  *)
(* each script carries, called next to those of new_auth.py.               *)
(***************************************************************************)
\* the scripts that define the three helpers
DupScripts ==
    {"market_orders.py", "order_lifecycle.py", "order_lifecycle_3.py",
     "scripts/cancel_all_my_orders.py", "scripts/cancel_all_raw.py",
     "scripts/check_balance.py", "scripts/ex_deposit.py",
     "scripts/getLall_my_orders.py", "scripts/get_all_orders_raw.py",
     "scripts/raw_account.py", "scripts/settle_all_positions.py"}

DupFunctions == {"encode_varint", "build_hip820", "build_signature_map"}

\* what a call does: it returns bytes or it raises
DupReturned(bytes) == [raised |-> "", bytes |-> bytes]

DupRaised(exc) == [raised |-> exc, bytes |-> <<>>]

DupNoOutcome == [raised |-> "not called", bytes |-> <<>>]

\* the text of the helpers of order_lifecycle_3.py is wrapped in
\* try / except Exception; the text of the ten other scripts is the same
\* from script to script up to docstrings and annotations
helpers_of(script) ==
    IF script = "order_lifecycle_3.py" THEN "try" ELSE "plain"

\* market_orders.py and the nine scripts with the same text
RECURSIVE script_encode_varint_loop(_, _)
script_encode_varint_loop(v, result) ==
    IF v > 127
    THEN script_encode_varint_loop(
             ShiftRight(v, 7), Append(result, BitOr(BitAnd(v, 127), 128)))
    ELSE Append(result, BitAnd(v, 127))

script_encode_varint(v) == script_encode_varint_loop(v, <<>>)

script_build_hip820(msg) ==
    LET prefix == Hip820Prefix
        length == StrAscii(Len(msg))
    IN  prefix \o length \o <<10>> \o msg

script_build_signature_map(pk, sg) ==
    LET sig_pair1 == <<10>> \o script_encode_varint(Len(pk)) \o pk
        sig_pair == sig_pair1
                      \o (<<26>> \o script_encode_varint(Len(sg)) \o sg)
    IN  <<10>> \o script_encode_varint(Len(sig_pair)) \o sig_pair

\* order_lifecycle_3.py: the bodies of the try blocks
RECURSIVE ol3_encode_varint_loop(_, _)
ol3_encode_varint_loop(v, result) ==
    IF v > 127
    THEN ol3_encode_varint_loop(
             ShiftRight(v, 7), Append(result, BitOr(BitAnd(v, 127), 128)))
    ELSE Append(result, BitAnd(v, 127))

ol3_encode_varint(v) == ol3_encode_varint_loop(v, <<>>)

ol3_build_hip820(msg) ==
    LET prefix == Hip820Prefix
        length == StrAscii(Len(msg))
        result == prefix \o length \o <<10>> \o msg
    IN  result

\* a copy that writes the signature to the ECDSA field of the oneof
ol3_build_signature_map_ecdsa(pk, sg) ==
    LET sig_pair1 == <<10>> \o ol3_encode_varint(Len(pk)) \o pk
        sig_pair == sig_pair1 \o (<<50>> \o ol3_encode_varint(Len(sg)) \o sg)
    IN  <<10>> \o ol3_encode_varint(Len(sig_pair)) \o sig_pair

ol3_build_signature_map(pk, sg) ==
    LET sig_pair1 == <<10>> \o ol3_encode_varint(Len(pk)) \o pk
        sig_pair == sig_pair1 \o (<<26>> \o ol3_encode_varint(Len(sg)) \o sg)
        result == <<10>> \o ol3_encode_varint(Len(sig_pair)) \o sig_pair
    IN  result

\* "except Exception as e: logger.error(...); raise": the exception of the
\* body leaves the function
ol3_except(exc) == DupRaised(exc)

\* the arguments the helpers are called with
DupValues == VarintInputs

DupMessages == {Utf8Encode(text) : text \in Messages}

DupIdle ==
    /\ dup_script = ""
    /\ dup_fn = ""
    /\ dup_none = FALSE
    /\ dup_value = 0
    /\ dup_a = <<>>
    /\ dup_b = <<>>
    /\ dup_pc = "idle"
    /\ dup_script_out = DupNoOutcome
    /\ dup_ref_out = DupNoOutcome

\* a script, one of its helpers and an argument list: an int for
\* encode_varint, bytes for the two others, or None where TypeError is
\* raised by the first operation on the argument
DupInit ==
    /\ dup_script \in DupScripts
    /\ dup_fn \in DupFunctions
    /\ \/ /\ dup_none = TRUE
          /\ dup_value = 0 /\ dup_a = <<>> /\ dup_b = <<>>
       \/ /\ dup_none = FALSE
          /\ dup_fn = "encode_varint"
          /\ dup_value \in DupValues /\ dup_a = <<>> /\ dup_b = <<>>
       \/ /\ dup_none = FALSE
          /\ dup_fn = "build_hip820"
          /\ dup_value = 0 /\ dup_a \in DupMessages /\ dup_b = <<>>
       \/ /\ dup_none = FALSE
          /\ dup_fn = "build_signature_map"
          /\ dup_value = 0 /\ dup_a \in ByteStrings /\ dup_b \in ByteStrings
    /\ dup_pc = "input"
    /\ dup_script_out = DupNoOutcome
    /\ dup_ref_out = DupNoOutcome

\* the helper of the script
DupCallScript ==
    /\ dup_pc = "input"
    /\ dup_script_out' =
          IF helpers_of(dup_script) = "try"
          THEN IF dup_none THEN ol3_except("TypeError")
               ELSE IF dup_fn = "encode_varint"
               THEN DupReturned(ol3_encode_varint(dup_value))
               ELSE IF dup_fn = "build_hip820"
               THEN DupReturned(ol3_build_hip820(dup_a))
               ELSE DupReturned(ol3_build_signature_map(dup_a, dup_b))
          ELSE IF dup_none THEN DupRaised("TypeError")
               ELSE IF dup_fn = "encode_varint"
               THEN DupReturned(script_encode_varint(dup_value))
               ELSE IF dup_fn = "build_hip820"
               THEN DupReturned(script_build_hip820(dup_a))
               ELSE DupReturned(script_build_signature_map(dup_a, dup_b))
    /\ dup_pc' = "script"
    /\ UNCHANGED <<dup_script, dup_fn, dup_none, dup_value, dup_a, dup_b,
                   dup_ref_out>>
    /\ UNCHANGED notDupVars

\* its counterpart of new_auth.py, the signature map with key_type "ed25519"
DupCallReference ==
    /\ dup_pc = "script"
    /\ dup_ref_out' =
          IF dup_none THEN DupRaised("TypeError")
          ELSE IF dup_fn = "encode_varint"
          THEN DupReturned(encode_varint(dup_value))
          ELSE IF dup_fn = "build_hip820"
          THEN DupReturned(build_hip820(dup_a))
          ELSE DupReturned(
                   build_signature_map_protobuf(dup_a, dup_b, "ed25519"))
    /\ dup_pc' = "done"
    /\ UNCHANGED <<dup_script, dup_fn, dup_none, dup_value, dup_a, dup_b,
                   dup_script_out>>
    /\ UNCHANGED notDupVars

DupNext ==
    \/ DupCallScript
    \/ DupCallReference

(***************************************************************************)
(* Specifications                                                          *)
(***************************************************************************)
InitVarint ==
    /\ VarintInit
    /\ HipIdle
    /\ SigIdle
    /\ AuthIdle
    /\ CredIdle
    /\ SettleIdle
    /\ HttpIdle
    /\ SubmitIdle
    /\ LcIdle
    /\ DepIdle
    /\ SrIdle
    /\ L3Idle
    /\ DupIdle

SpecVarint == InitVarint /\ [][VarintNext]_vars

InitHip ==
    /\ HipInit
    /\ VarintIdle
    /\ SigIdle
    /\ AuthIdle
    /\ CredIdle
    /\ SettleIdle
    /\ HttpIdle
    /\ SubmitIdle
    /\ LcIdle
    /\ DepIdle
    /\ SrIdle
    /\ L3Idle
    /\ DupIdle

SpecHip == InitHip /\ [][HipNext]_vars

InitSigMap ==
    /\ SigInit
    /\ VarintIdle
    /\ HipIdle
    /\ AuthIdle
    /\ CredIdle
    /\ SettleIdle
    /\ HttpIdle
    /\ SubmitIdle
    /\ LcIdle
    /\ DepIdle
    /\ SrIdle
    /\ L3Idle
    /\ DupIdle

SpecSigMap == InitSigMap /\ [][SigNext]_vars

\* one run of authenticate
Init ==
    /\ AuthInit
    /\ VarintIdle
    /\ HipIdle
    /\ SigIdle
    /\ CredIdle
    /\ SettleIdle
    /\ HttpIdle
    /\ SubmitIdle
    /\ LcIdle
    /\ DepIdle
    /\ SrIdle
    /\ L3Idle
    /\ DupIdle

Spec == Init /\ [][Next]_vars

\* two runs of the credential construction on one key and message
InitCred ==
    /\ CredInit
    /\ VarintIdle
    /\ HipIdle
    /\ SigIdle
    /\ AuthIdle
    /\ SettleIdle
    /\ HttpIdle
    /\ SubmitIdle
    /\ LcIdle
    /\ DepIdle
    /\ SrIdle
    /\ L3Idle
    /\ DupIdle

SpecCred == InitCred /\ [][CredNext]_vars

\* one call of settle_positions on any list of positions
InitSettle ==
    /\ SettleInit
    /\ VarintIdle
    /\ HipIdle
    /\ SigIdle
    /\ AuthIdle
    /\ CredIdle
    /\ HttpIdle
    /\ SubmitIdle
    /\ LcIdle
    /\ DepIdle
    /\ SrIdle
    /\ L3Idle
    /\ DupIdle

SpecSettle == InitSettle /\ [][SettleNext]_vars

\* one invocation of http_request
InitHttp ==
    /\ HttpInit
    /\ VarintIdle
    /\ HipIdle
    /\ SigIdle
    /\ AuthIdle
    /\ CredIdle
    /\ SettleIdle
    /\ SubmitIdle
    /\ LcIdle
    /\ DepIdle
    /\ SrIdle
    /\ L3Idle
    /\ DupIdle

SpecHttp == InitHttp /\ [][HttpNext]_vars

\* one call of submit_multiple_orders
InitSubmit ==
    /\ SubmitInit
    /\ VarintIdle
    /\ HipIdle
    /\ SigIdle
    /\ AuthIdle
    /\ CredIdle
    /\ SettleIdle
    /\ HttpIdle
    /\ LcIdle
    /\ DepIdle
    /\ SrIdle
    /\ L3Idle
    /\ DupIdle

SpecSubmit == InitSubmit /\ [][SubmitNext]_vars

\* one run of order_lifecycle.py
InitLifecycle ==
    /\ LcInit
    /\ VarintIdle
    /\ HipIdle
    /\ SigIdle
    /\ AuthIdle
    /\ CredIdle
    /\ SettleIdle
    /\ HttpIdle
    /\ SubmitIdle
    /\ DepIdle
    /\ SrIdle
    /\ L3Idle
    /\ DupIdle

SpecLifecycle == InitLifecycle /\ [][LcNext]_vars

\* one run of scripts/ex_deposit.py
InitDeposit ==
    /\ DepInit
    /\ VarintIdle
    /\ HipIdle
    /\ SigIdle
    /\ AuthIdle
    /\ CredIdle
    /\ SettleIdle
    /\ HttpIdle
    /\ SubmitIdle
    /\ LcIdle
    /\ SrIdle
    /\ L3Idle
    /\ DupIdle

SpecDeposit == InitDeposit /\ [][DepNext]_vars

\* one invocation of safe_request; a pass of the loop that can run does run
InitSafeRequest ==
    /\ SrInit
    /\ VarintIdle
    /\ HipIdle
    /\ SigIdle
    /\ AuthIdle
    /\ CredIdle
    /\ SettleIdle
    /\ HttpIdle
    /\ SubmitIdle
    /\ LcIdle
    /\ DepIdle
    /\ L3Idle
    /\ DupIdle

SpecSafeRequest == InitSafeRequest /\ [][SrNext]_vars /\ WF_vars(SrNext)

\* one run of main of order_lifecycle_3.py; a request in progress is answered, raises or is interrupted
InitLifecycle3 ==
    /\ L3Init
    /\ VarintIdle
    /\ HipIdle
    /\ SigIdle
    /\ AuthIdle
    /\ CredIdle
    /\ SettleIdle
    /\ HttpIdle
    /\ SubmitIdle
    /\ LcIdle
    /\ DepIdle
    /\ SrIdle
    /\ DupIdle

SpecLifecycle3 == InitLifecycle3 /\ [][L3Next]_vars /\ WF_vars(L3Next)

\* a helper of one script and its counterpart of new_auth.py are called with the same argument
InitHelpers ==
    /\ DupInit
    /\ VarintIdle
    /\ HipIdle
    /\ SigIdle
    /\ AuthIdle
    /\ CredIdle
    /\ SettleIdle
    /\ HttpIdle
    /\ SubmitIdle
    /\ LcIdle
    /\ DepIdle
    /\ SrIdle
    /\ L3Idle

SpecHelpers == InitHelpers /\ [][DupNext]_vars

(***************************************************************************)
(* Reference notions the properties are stated with                        *)
(***************************************************************************)
RECURSIVE BitLength(_)
BitLength(v) == IF v = 0 THEN 0 ELSE 1 + BitLength(v \div 2)

\* max(1, ceil(bitlength(v) / 7))
VarintSize(v) == IF v = 0 THEN 1 ELSE (BitLength(v) + 6) \div 7

RECURSIVE Pow128(_)
Pow128(n) == IF n = 0 THEN 1 ELSE 128 * Pow128(n - 1)

\* the minimal base-128 varint of v, byte by byte
StdVarint(v) ==
    [i \in 1..VarintSize(v) |->
        ((v \div Pow128(i - 1)) % 128) + (IF i < VarintSize(v) THEN 128 ELSE 0)]

\* the value of the 7-bit payloads of bytes, least significant group first
RECURSIVE PayloadValue(_)
PayloadValue(bytes) ==
    IF bytes = <<>> THEN 0
    ELSE (Head(bytes) % 128) + 128 * PayloadValue(Tail(bytes))

\* the number a string of ASCII decimal digits denotes
RECURSIVE DecimalValue(_)
DecimalValue(digits) ==
    IF digits = <<>> THEN 0
    ELSE 10 * DecimalValue(SubSeq(digits, 1, Len(digits) - 1))
         + (digits[Len(digits)] - 48)

\* the number of bytes of the UTF-8 form of a text
RECURSIVE Utf8Size(_)
Utf8Size(text) ==
    IF text = <<>> THEN 0
    ELSE (IF Head(text) < 128 THEN 1
          ELSE IF Head(text) < 2048 THEN 2
          ELSE IF Head(text) < 65536 THEN 3 ELSE 4) + Utf8Size(Tail(text))

ExpectedPrefix ==
    <<25, 72, 101, 100, 101, 114, 97, 32, 83, 105, 103, 110, 101, 100, 32,
      77, 101, 115, 115, 97, 103, 101, 58, 10>>

\* the wrapper of m read back: prefix, d digits, a newline, then m
IsWrapperOf(w, m, d) ==
    /\ Len(w) = 24 + d + 1 + Len(m)
    /\ SubSeq(w, 1, 24) = ExpectedPrefix
    /\ \A i \in 25..(24 + d) : w[i] \in 48..57
    /\ d > 1 => w[25] # 48
    /\ DecimalValue(SubSeq(w, 25, 24 + d)) = Len(m)
    /\ w[25 + d] = 10
    /\ SubSeq(w, 26 + d, Len(w)) = m

(***************************************************************************)
(* C1: build_hip820(m) is the 24-byte prefix, the decimal digits of the    *)
(* UTF-8 byte length of m, one newline byte and m unchanged, nothing else; *)
(* for the empty message it is the prefix followed by '0' and a newline.   *)
(***************************************************************************)
C1_Hip820Format ==
    hpc = "wrapped" =>
        /\ Len(msg_bytes) = Utf8Size(message)
        /\ \E d \in 1..4 : IsWrapperOf(wrapped, msg_bytes, d)
        /\ message = <<>> => wrapped = ExpectedPrefix \o <<48, 10>>

\* a wrapped message whose byte count (three digits) exceeds its character count
C1_Witness ==
    /\ hpc = "wrapped"
    /\ Len(msg_bytes) >= 100
    /\ Len(msg_bytes) > Len(message)

(***************************************************************************)
(* C2: build_signature_map(pub, sig) is 0x0A, varint(len(inner)), inner    *)
(* with inner = 0x0A, varint(len(pub)), pub, 0x1A, varint(len(sig)), sig:  *)
(* public key first, signature second, no other bytes.                     *)
(***************************************************************************)
Ed25519Built ==
    /\ spc \in {"built", "outer", "decoded"}
    /\ builder = "build_signature_map" \/ key_type = "ed25519"

C2_SignatureMapLayout ==
    Ed25519Built =>
        LET n == Len(pub_key)
            m == Len(signature)
            vn == StdVarint(n)
            vm == StdVarint(m)
            innerLen == 1 + Len(vn) + n + 1 + Len(vm) + m
            vo == StdVarint(innerLen)
            a == 1 + Len(vo)            \* bytes before the inner buffer
            b == a + 1 + Len(vn)        \* bytes before pub
            c == b + n                  \* bytes before the 0x1A tag
            e == c + 1 + Len(vm)        \* bytes before sig
        IN  /\ Len(sig_map) = a + innerLen
            /\ sig_map[1] = 10
            /\ SubSeq(sig_map, 2, a) = vo
            /\ sig_map[a + 1] = 10
            /\ SubSeq(sig_map, a + 2, b) = vn
            /\ SubSeq(sig_map, b + 1, c) = pub_key
            /\ sig_map[c + 1] = 26
            /\ SubSeq(sig_map, c + 2, e) = vm
            /\ SubSeq(sig_map, e + 1, Len(sig_map)) = signature

\* a map of a 33-byte key and a 128-byte signature (two-byte length varints)
C2_Witness ==
    /\ Ed25519Built
    /\ builder = "build_signature_map"
    /\ Len(pub_key) = 33
    /\ Len(signature) = 128

(***************************************************************************)
(* C3: decoding the outer length-delimited field of the signature map and  *)
(* then its two sub-fields consumes the whole buffer and recovers exactly  *)
(* pub from the first sub-field and sig from the second, also for lengths  *)
(* of 128 bytes and more.                                                  *)
(***************************************************************************)
C3_SignatureMapRoundTrip ==
    (spc = "decoded" /\ (builder = "build_signature_map" \/ key_type = "ed25519")) =>
        /\ Len(outer.fields) = 1
        /\ outer.fields[1].field_number = 1
        /\ outer.pos = Len(sig_map)
        /\ Len(inner.fields) = 2
        /\ inner.fields[1] = [field_number |-> 1, data |-> pub_key]
        /\ inner.fields[2] = [field_number |-> 3, data |-> signature]
        /\ inner.pos = Len(outer.fields[1].data)

\* a decoded map whose key and signature lengths both need two-byte varints
C3_Witness ==
    /\ spc = "decoded"
    /\ builder = "build_signature_map"
    /\ Len(pub_key) >= 128
    /\ Len(signature) >= 128
    /\ pub_key # signature

(***************************************************************************)
(* C4: for a 32-byte public key and a 64-byte signature the signature map  *)
(* starts with 0x0A and its second byte is 102 (0x66).                     *)
(***************************************************************************)
C4_Ed25519MapHeader ==
    (spc \in {"built", "outer", "decoded"}
        /\ Len(pub_key) = 32 /\ Len(signature) = 64) =>
        /\ sig_map[1] = 10
        /\ sig_map[2] = 102

\* C4 as amended: the second byte is the length of the inner buffer,
\* 1+1+32 + 1+1+64 = 100 (0x64); the whole buffer is 102 bytes long
C4_Ed25519MapHeaderAmended ==
    (spc \in {"built", "outer", "decoded"}
        /\ Len(pub_key) = 32 /\ Len(signature) = 64) =>
        /\ sig_map[1] = 10
        /\ sig_map[2] = 100
        /\ Len(sig_map) = 102

C4_Witness ==
    /\ spc = "built"
    /\ Len(pub_key) = 32
    /\ Len(signature) = 64
    /\ Len(sig_map) = 102

(***************************************************************************)
(* C5: for 0 <= v, encode_varint(v) is the minimal base-128 varint: it has *)
(* max(1, ceil(bitlength(v)/7)) bytes (at most 5), every byte but the last *)
(* has bit 0x80 set, the last has it clear, the 7-bit payloads, least      *)
(* significant first, give v back; decode_varint at position 0 returns v   *)
(* and the position just past the encoding.                                *)
(***************************************************************************)
C5_VarintStandard ==
    /\ (vpc \in {"encoded", "decoded"} /\ value >= 0) =>
        /\ Len(encoded) = VarintSize(value)
        /\ Len(encoded) <= 5
        /\ \A i \in 1..(Len(encoded) - 1) : encoded[i] \in 128..255
        /\ encoded[Len(encoded)] \in 0..127
        /\ PayloadValue(encoded) = value
    /\ (vpc = "decoded" /\ value >= 0) => decoded = <<value, Len(encoded)>>

\* a five-byte encoding decoded back
C5_Witness ==
    /\ vpc = "decoded"
    /\ value >= 268435456
    /\ Len(encoded) = 5
    /\ decoded[1] = value

(***************************************************************************)
(* C6: encode_varint gives 00 for 0, 7F for 127, 80 01 for 128 and AC 02   *)
(* for 300.                                                                *)
(***************************************************************************)
C6_VarintExamples ==
    vpc = "encoded" =>
        /\ value = 0 => encoded = <<0>>
        /\ value = 127 => encoded = <<127>>
        /\ value = 128 => encoded = <<128, 1>>
        /\ value = 300 => encoded = <<172, 2>>

C6_Witness ==
    /\ vpc = "encoded"
    /\ value = 300
    /\ encoded = <<172, 2>>

(***************************************************************************)
(* C10: encode_varint called with a negative value fails with an           *)
(* EncodingError and returns no bytes.                                     *)
(***************************************************************************)
C10_NegativeVarintRejected ==
    (vpc \in {"encoded", "decoded"} /\ value < 0) =>
        /\ verr = "EncodingError"
        /\ encoded = <<>>

(***************************************************************************)
(* C7: in every verify request built by authenticate,                      *)
(* message_signed_plain_text is the challenge message exactly as received  *)
(* (not the wrapped bytes), challenge_id is the challenge_id of the same   *)
(* challenge response, and the signature in signature_map_base64 was       *)
(* computed over the HIP-820 wrapper of the UTF-8 bytes of that message,   *)
(* never over the unwrapped message.                                       *)
(***************************************************************************)
C7_VerifyRequestFields ==
    \A i \in 1..Len(log) :
        IsVerifyRequest(log[i]) =>
            LET b == log[i].body
                seed == KeySeeds[private_key_hex]
                m == Utf8Encode(challenge_res.message.s)
                MapOver(bytes) ==
                    b64encode(build_signature_map(public_bytes(seed),
                                                  sign(seed, bytes)))
            IN  /\ b.message_signed_plain_text = challenge_res.message
                /\ b.challenge_id = challenge_res.challenge_id
                /\ \E d \in 1..4 : IsWrapperOf(signed_over, m, d)
                /\ b.signature_map_base64 = MapOver(signed_over)
                /\ b.signature_map_base64 # MapOver(m)

\* a verify request was sent for a message with multi-byte characters
C7_Witness ==
    /\ \E i \in 1..Len(log) : IsVerifyRequest(log[i])
    /\ Utf8Size(challenge_res.message.s) > Len(challenge_res.message.s)
    /\ Len(signed_over) > 24

(***************************************************************************)
(* C8: within one run, no two verify requests are sent with the same       *)
(* challenge_id and signature_map_base64: a repeated verify call carries a *)
(* freshly fetched challenge and a newly generated signature.              *)
(***************************************************************************)
C8_NoVerifyReplay ==
    \A i, j \in 1..Len(log) :
        (i < j /\ IsVerifyRequest(log[i]) /\ IsVerifyRequest(log[j])) =>
            ~ /\ log[i].body.challenge_id = log[j].body.challenge_id
              /\ log[i].body.signature_map_base64 = log[j].body.signature_map_base64

(***************************************************************************)
(* C9: the verify request is sent only after a challenge response with     *)
(* status 200 carrying a non-empty challenge_id and message; a token is    *)
(* returned only when the verify response has status 200 and carries a     *)
(* non-empty access_token; in every other case authenticate returns None   *)
(* and sends nothing further.                                              *)
(***************************************************************************)
NonEmptyStr(j) == j.t = "str" /\ j.s # <<>>

GoodChallenge ==
    /\ ~challenge_res.none
    /\ challenge_res.status = 200
    /\ NonEmptyStr(challenge_res.challenge_id)
    /\ NonEmptyStr(challenge_res.message)

GoodVerify ==
    /\ ~verify_res.none
    /\ verify_res.status = 200
    /\ NonEmptyStr(verify_res.access_token)

C9_HandshakeState ==
    /\ \A i \in 1..Len(log) :
          IsVerifyRequest(log[i]) =>
              /\ GoodChallenge
              /\ \E j \in 1..(i - 1) : IsChallengeRequest(log[j])
              /\ \A j \in (i + 1)..Len(log) : ~IsChallengeRequest(log[j])
    /\ token.t = "token" =>
          /\ apc = "done"
          /\ GoodVerify
          /\ token.s = verify_res.access_token.s
          /\ \E i \in 1..Len(log) : IsVerifyRequest(log[i])
    /\ apc = "done" => token.t \in {"None", "token"}
    /\ (apc = "done" /\ ~(GoodChallenge /\ GoodVerify)) => token.t = "None"

C9_Handshake ==
    /\ []C9_HandshakeState
    /\ [][apc = "done" => log' = log]_vars

\* a token was returned after a retried challenge call and a retried verify call
C9_Witness ==
    /\ apc = "done"
    /\ token.t = "token"
    /\ Len(log) >= 6

(***************************************************************************)
(* C11: a key-loading or signing failure is terminal for one               *)
(* authentication attempt: if loading the private key fails no HTTP        *)
(* request is issued at all, if signing fails after a challenge was        *)
(* received no verify request is sent, nothing is retried, and the result  *)
(* is None.                                                                *)
(***************************************************************************)
C11_FailureState ==
    /\ (private_key_hex = "malformed" /\ apc # "start") =>
          /\ apc = "done"
          /\ log = <<>>
          /\ token = ResultNone
    /\ raised_at = "load_der_private_key" =>
          /\ private_key_hex = "malformed"
          /\ log = <<>>
    /\ raised_at = "private_key.sign" =>
          /\ apc = "done"
          /\ token = ResultNone
          /\ GoodChallenge
          /\ \A i \in 1..Len(log) : ~IsVerifyRequest(log[i])

C11_NothingAfterFailure ==
    raised_at \in {"load_der_private_key", "private_key.sign"} =>
        (log' = log /\ token' = token /\ signed_over' = signed_over)

C11_FailureIsTerminal ==
    /\ []C11_FailureState
    /\ [][C11_NothingAfterFailure]_vars

\* signing failed after a challenge that needed a retry
C11_Witness ==
    /\ raised_at = "private_key.sign"
    /\ Len(log) >= 3
    /\ token = ResultNone

(***************************************************************************)
(* C13: build_signature_map_protobuf with key type ecdsa_secp256k1 gives   *)
(* the bytes it gives with key type ed25519 except that the tag of the     *)
(* signature sub-field is 0x32 instead of 0x1A; 0x1A is used only when the *)
(* key type is exactly 'ed25519'.                                          *)
(***************************************************************************)
\* number of bytes before the signature sub-field tag in the map of pk, sg
SigTagOffset(pk, sg) ==
    LET keyLen == StdVarint(Len(pk))
        sigLen == StdVarint(Len(sg))
        pairLen == 1 + Len(keyLen) + Len(pk) + 1 + Len(sigLen) + Len(sg)
    IN  1 + Len(StdVarint(pairLen)) + 1 + Len(keyLen) + Len(pk)

C13_EcdsaTag ==
    (spc \in {"built", "outer", "decoded"}
        /\ builder = "build_signature_map_protobuf") =>
        LET ed == build_signature_map_protobuf(pub_key, signature, "ed25519")
            t == SigTagOffset(pub_key, signature) + 1
        IN  /\ ed[t] = 26
            /\ key_type = "ed25519" => sig_map = ed
            /\ key_type # "ed25519" => sig_map = [ed EXCEPT ![t] = 50]
            /\ sig_map[t] = 26 <=> key_type = "ed25519"

\* an ECDSA map of a compressed secp256k1 key
C13_Witness ==
    /\ spc = "built"
    /\ builder = "build_signature_map_protobuf"
    /\ key_type = "ecdsa_secp256k1"
    /\ Len(pub_key) = 33
    /\ Len(signature) = 64
    /\ sig_map[38] = 50

(***************************************************************************)
(* C14: the length of build_hip820(m) is 24 + the number of decimal digits *)
(* of len(m) + 1 + len(m).                                                 *)
(***************************************************************************)
NumDigits(n) ==
    IF n < 10 THEN 1
    ELSE IF n < 100 THEN 2
    ELSE IF n < 1000 THEN 3
    ELSE IF n < 10000 THEN 4 ELSE 5

C14_Hip820Length ==
    hpc = "wrapped" =>
        Len(wrapped) = 24 + NumDigits(Len(msg_bytes)) + 1 + Len(msg_bytes)

\* a 100-byte message: 24 + 3 + 1 + 100
C14_Witness ==
    /\ hpc = "wrapped"
    /\ Len(msg_bytes) = 100
    /\ Len(wrapped) = 128

RECURSIVE SumOver(_, _)
SumOver(S, f) ==
    IF S = {} THEN 0
    ELSE LET x == CHOOSE y \in S : TRUE
         IN  f[x] + SumOver(S \ {x}, f)

\* the positions of a side that have a positive quantity
OpenPositions(side) ==
    {i \in 1..Len(positions) :
        /\ positions[i].quantity > 0
        /\ Lower(positions[i].contract_side) = side}

TotalOpen(side) ==
    SumOver(OpenPositions(side), [i \in 1..Len(positions) |->
                                      positions[i].quantity])

\* the sum of the entries of the request taken from positions of a side
EntrySum(side) ==
    SumOver({k \in 1..Len(settle_request) :
                settle_request[k].position_id \in OpenPositions(side)},
            [k \in 1..Len(settle_request) |-> settle_request[k].quantity])

C15_BalancedRequest ==
    settle_request # NoRequest =>
        /\ settle_pc \in {"sent", "done"}
        /\ EntrySum("short") = Min(TotalOpen("long"), TotalOpen("short"))
        /\ EntrySum("long") = Min(TotalOpen("long"), TotalOpen("short"))
        /\ \A k \in 1..Len(settle_request) :
              LET e == settle_request[k]
              IN  /\ e.position_id \in
                        OpenPositions("long") \cup OpenPositions("short")
                  /\ e.quantity >= 1
                  /\ e.quantity <= positions[e.position_id].quantity
                  /\ \A j \in 1..Len(settle_request) :
                        settle_request[j].position_id = e.position_id => j = k

\* a request over three positions, one of them settled in part
C15_Witness ==
    /\ settle_pc = "sent"
    /\ Len(settle_request) = 3
    /\ \E k \in 1..3 :
          settle_request[k].quantity
              < positions[settle_request[k].position_id].quantity

(***************************************************************************)
(* C16: whenever a settle request is sent, every open position with a      *)
(* positive quantity is included in it with its full quantity.             *)
(***************************************************************************)
C16_AllSettledCompletely ==
    settle_request # NoRequest =>
        \A i \in 1..Len(positions) :
            positions[i].quantity > 0 =>
                \E k \in 1..Len(settle_request) :
                    /\ settle_request[k].position_id = i
                    /\ settle_request[k].quantity = positions[i].quantity

(***************************************************************************)
(* C20: http_request of market_orders.py never retries: an invocation      *)
(* makes at most one network call (exactly one for GET, POST and DELETE,   *)
(* none for any other method), and an exception ends it with None without  *)
(* a second call.                                                          *)
(***************************************************************************)
C20_SingleAttempt ==
    /\ Len(network_calls) <= 1
    /\ http_pc = "returned" =>
          /\ Upper(http_method) \in {"GET", "POST", "DELETE"}
                => Len(network_calls) = 1
          /\ Upper(http_method) \notin {"GET", "POST", "DELETE"}
                => (network_calls = <<>> /\ http_result = "None")
    /\ http_raised # "none" =>
          /\ http_pc = "returned"
          /\ http_result = "None"
          /\ Len(network_calls) = 1

C20_NoCallAfterReturn ==
    (http_pc = "returned" \/ http_raised # "none") =>
        (network_calls' = network_calls /\ http_result' = http_result)

C20_NeverRetries ==
    /\ []C20_SingleAttempt
    /\ [][C20_NoCallAfterReturn]_vars

\* a POST that timed out and was given up after its one call
C20_Witness ==
    /\ http_pc = "returned"
    /\ http_method = "POST"
    /\ http_raised = "Timeout"
    /\ network_calls = <<"requests.post">>
    /\ http_result = "None"

(***************************************************************************)
(* C17: submit_multiple_orders always issues exactly four order-submit     *)
(* requests, long, long, short, short, each of kind 'market' with price 0  *)
(* and the same quantity; a rejected or failed submission does not stop    *)
(* the remaining ones; the returned list holds only the accepted orders    *)
(* (status 200 or 201), in submission order.                               *)
(***************************************************************************)
C17_FourSubmissions ==
    /\ Len(submit_log) <= 4
    /\ \A k \in 1..Len(submit_log) :
          /\ submit_log[k].side = (IF k <= 2 THEN "long" ELSE "short")
          /\ submit_log[k].kind = "market"
          /\ submit_log[k].price = 0
          /\ submit_log[k].quantity = submit_log[1].quantity
    /\ submit_pc \notin {"idle", "loop", "waiting"} => Len(submit_log) = 4
    /\ \A i \in 1..Len(submitted_orders) :
          LET k == submitted_orders[i].order_id
          IN  /\ k \in 1..Len(submit_outcomes)
              /\ submit_outcomes[k].status_code \in {200, 201}
              /\ submitted_orders[i].side = submit_log[k].side
              /\ \A j \in 1..(i - 1) : submitted_orders[j].order_id < k

(***************************************************************************)
(* C18: in order_lifecycle.py any two consecutive HTTP requests (market    *)
(* info, challenge, verify, balance, submit, account view, cancel) are     *)
(* separated by a call of wait_for_rate_limit.                             *)
(***************************************************************************)
C18_RateLimited ==
    \A i \in 1..(Len(lc_log) - 1) :
        ~(LcIsRequest(lc_log[i]) /\ LcIsRequest(lc_log[i + 1]))

\* a complete run: seven requests with six waits between them
C18_Witness ==
    /\ lc_pc = "EXIT_SUCCESS"
    /\ Len(lc_log) = 13
    /\ \A i \in 1..13 : LcIsRequest(lc_log[i]) <=> i % 2 = 1
    /\ lc_log[13].endpoint = "order_cancel"

(***************************************************************************)
(* C19: in scripts/ex_deposit.py any two consecutive HTTP requests (market *)
(* info, challenge, verify, balance, create deposit transaction, submit    *)
(* deposit, final balance) are separated by a call of wait_for_rate_limit. *)
(***************************************************************************)
C19_RateLimited ==
    \A i \in 1..(Len(dep_log) - 1) :
        ~(LcIsRequest(dep_log[i]) /\ LcIsRequest(dep_log[i + 1]))

(***************************************************************************)
(* C21: safe_request always terminates after at most MAX_RETRIES = 3       *)
(* network attempts: it returns the first response obtained whatever its   *)
(* status, retries only when the attempt raised, waits RETRY_DELAY between *)
(* consecutive attempts and not after the last one, and returns None       *)
(* exactly when all three attempts raised or the method is unsupported.    *)
(***************************************************************************)
SrAttempts == {i \in 1..Len(sr_log) : sr_log[i].ev = "attempt"}

SrRaised(i) == sr_log[i].ev = "attempt" /\ sr_log[i].exc # ""

C21_BoundedRetries ==
    /\ Cardinality(SrAttempts) <= 3
    \* the log starts with an attempt; a response ends it
    /\ \A i \in 1..Len(sr_log) :
          /\ i = 1 => sr_log[i].ev = "attempt"
          /\ (sr_log[i].ev = "attempt" /\ ~SrRaised(i)) =>
                /\ i = Len(sr_log)
                /\ sr_pc = "returned"
                /\ sr_result = "response"
          \* an attempt follows only a raised attempt and a sleep of
          \* RETRY_DELAY seconds
          /\ (sr_log[i].ev = "attempt" /\ i > 1) =>
                /\ i > 2
                /\ sr_log[i - 1].ev = "sleep"
                /\ sr_log[i - 1].seconds = 2
                /\ SrRaised(i - 2)
          \* a sleep follows a raised attempt and, once the call is over,
          \* is followed by an attempt
          /\ sr_log[i].ev = "sleep" =>
                /\ i > 1
                /\ SrRaised(i - 1)
                /\ sr_pc = "returned" =>
                      (i < Len(sr_log) /\ sr_log[i + 1].ev = "attempt")
    /\ sr_pc = "returned" =>
          /\ sr_result \in {"None", "response"}
          /\ sr_result = "None" <=>
                \/ Upper(sr_method) \notin {"GET", "POST", "DELETE"}
                \/ /\ Cardinality(SrAttempts) = 3
                   /\ \A i \in SrAttempts : SrRaised(i)
          /\ Upper(sr_method) \notin {"GET", "POST", "DELETE"} =>
                sr_log = <<>>

C21_NothingAfterReturn ==
    sr_pc = "returned" => (sr_log' = sr_log /\ sr_result' = sr_result)

C21_Terminates ==
    /\ []C21_BoundedRetries
    /\ [][C21_NothingAfterReturn]_vars
    /\ <>(sr_pc = "returned")

\* three attempts that all raised, two sleeps, None
C21_Witness ==
    /\ sr_pc = "returned"
    /\ sr_result = "None"
    /\ Len(sr_log) = 5
    /\ \A i \in {1, 3, 5} : SrRaised(i)
    /\ sr_log[2] = SrSleepEvent
    /\ sr_log[4] = SrSleepEvent


(***************************************************************************)
(* main of order_lifecycle_3.py                                            *)
(***************************************************************************)
\* the positions in the log of the requests sent to an endpoint
L3Sent(endpoint) == {i \in 1..Len(l3_log) : l3_log[i].endpoint = endpoint}

L3SubmitOrdered ==
    \A i \in L3Sent("order/submit") :
        /\ l3_token # ""
        /\ l3_log[i].token = l3_token
        /\ {"auth", "balance", "calculation"} \subseteq l3_results
        /\ \E j \in L3Sent("auth/verify"), k \in L3Sent("account/balance") :
              j < k /\ k < i

L3CancelOrdered ==
    \A i \in L3Sent("order/cancel") :
        /\ "submit" \in l3_results
        /\ l3_order_id # ""
        /\ l3_log[i].order_id = l3_order_id
        /\ \E j \in L3Sent("order/submit") : j < i

L3NothingAfterFailure ==
    /\ "auth" \notin l3_results =>
          L3Sent("account/balance") \cup L3Sent("order/submit")
              \cup L3Sent("account") \cup L3Sent("order/cancel") = {}
    /\ "balance" \notin l3_results \/ "calculation" \notin l3_results =>
          L3Sent("order/submit") \cup L3Sent("account")
              \cup L3Sent("order/cancel") = {}
    /\ "submit" \notin l3_results =>
          L3Sent("account") \cup L3Sent("order/cancel") = {}

\* C22: the submit request is sent only after authenticate returned a
\* token, the balance was obtained and the order parameters were computed;
\* a cancel request is sent only after a submit returned an order id and
\* names exactly that order; once authentication, balance, calculation or
\* submission has failed, no request of a later step is sent.
C22_LifecycleOrder ==
    /\ L3SubmitOrdered
    /\ L3CancelOrdered
    /\ L3NothingAfterFailure

\* a complete run whose submit was retried and whose order "v2" was
\* cancelled
C22_Witness ==
    /\ l3_pc = "returned"
    /\ l3_exit = "EXIT_SUCCESS"
    /\ l3_order_id = "v2"
    /\ Cardinality(L3Sent("order/submit")) = 2
    /\ L3Sent("order/cancel") # {}

L3CancelSent ==
    \E i \in L3Sent("order/cancel") : l3_log[i].order_id = l3_order_id

L3CancelBeforeReturn ==
    l3_pc = "returned" /\ l3_order_id # "" /\ l3_exit # "EXIT_INTERRUPTED"
        => L3CancelSent

\* C23: main returns, and unless it was interrupted a run in which
\* submit_limit_order returned an order id has by then sent a cancel request
\* for that order, whether or not the account view succeeded.
C23_EventuallyCancels ==
    /\ []L3CancelBeforeReturn
    /\ <>(l3_pc = "returned")
    /\ (l3_order_id # "") ~> (L3CancelSent \/ l3_exit = "EXIT_INTERRUPTED")

\* a run whose account view failed after every retry and whose order was
\* cancelled all the same
C23_Witness ==
    /\ l3_pc = "returned"
    /\ l3_order_id # ""
    /\ "portfolio" \notin l3_results
    /\ Cardinality(L3Sent("account")) = MAX_RETRIES
    /\ L3CancelSent

\* C24: every attempt safe_request makes for one call of submit_limit_order
\* sends the same Idempotency-Key, client_order_id and body, which are those
\* built before the call.
C24_SameSubmission ==
    /\ \A i, j \in L3Sent("order/submit") : l3_log[i] = l3_log[j]
    /\ l3_pc = "submit" =>
          \A i \in L3Sent("order/submit") : l3_log[i] = l3_kwargs

\* a submission that took every attempt safe_request allows
C24_Witness ==
    /\ Cardinality(L3Sent("order/submit")) = MAX_RETRIES
    /\ l3_pc = "returned"
    /\ l3_exit = "EXIT_FAILURE"

(***************************************************************************)
(* The duplicated helpers                                                  *)
(***************************************************************************)
\* C25: for every script and every argument, the script's build_hip820,
\* encode_varint and build_signature_map do what build_hip820,
\* encode_varint and build_signature_map_protobuf with key type "ed25519"
\* of new_auth.py do: they return the same bytes, or both raise.
C25_HelpersEquivalent ==
    dup_pc = "done" => dup_script_out = dup_ref_out

\* the signature map of order_lifecycle_3.py for a 32-byte key and a
\* 64-byte signature next to that of new_auth.py
C25_Witness ==
    /\ dup_pc = "done"
    /\ dup_script = "order_lifecycle_3.py"
    /\ dup_fn = "build_signature_map"
    /\ ~ dup_none
    /\ Len(dup_a) = 32
    /\ Len(dup_b) = 64
    /\ dup_script_out.raised = ""
    /\ Len(dup_script_out.bytes) = 102

====
